---------------------------- MODULE Spec2Model ----------------------------
(***************************************************************************)
(* Room/session state machines of the syncvibe signaling servers.          *)
(*                                                                         *)
(* The repository holds several stand-alone variants of the same server.   *)
(* The variable impl says which variant a behaviour runs; the variables    *)
(* of the other variants stay at their initial values.                     *)
(*                                                                         *)
(*   "server"   src/server.js            ws, rooms : Map, clients : Map    *)
(*   "part002"  src/unnamed/part_002     ws, rooms : object, peers : array *)
(*   "part004"  src/unnamed/part_004     socket.io, rooms + peers index    *)
(*   "part000"  src/unnamed/part_000     socket.io, join-room / leave-room *)
(*              (the second server of that file, lines 203-496)            *)
(*   "part000chat"  src/unnamed/part_000 socket.io, joinRoom / chatMessage *)
(*              (the first server of that file, lines 1-201)               *)
(*                                                                         *)
(* Every handler is one atomic action (node runs a callback to its end).   *)
(* outbox is what the last handler sent, in order; event is the inbound    *)
(* event it handled.                                                       *)
(***************************************************************************)
EXTENDS Naturals, Sequences, FiniteSets, TLC

\* ------------------------------------------------------------------ bounds
\* connections that join, send and close during a behaviour
NumConns == 2
\* join events processed in a behaviour (each draws a fresh id / timestamp)
MaxJoins == 2

\* --------------------------------------------------------------- constants
MAX_ROOM_SIZE == 12
Null == 0
NullRoom == "null"
NoCode == ""

\* two room codes every variant accepts (six digits)
R1 == "100001"
R2 == "100002"
Rooms == {R1, R2}
Conns == 1..NumConns

VARIABLES
    impl,          \* the variant that runs
    now,           \* Date.now(): advances with every join
    outbox,        \* messages sent by the last handler: <<[to, msg]>>
    event,         \* the inbound event the last handler processed
    rooms,         \* server.js: rooms : roomCode -> {clients, locked, hostId}
    clientId,      \* server.js: the connection closure's clientId
    currentRoom,   \* server.js: the connection closure's currentRoom
    isAlive,       \* server.js: ws.isAlive of each connection
    view,          \* server.js: what each client has made of the messages it
                   \* received (kept only in the behaviours that start with it)
    readyState,    \* server.js, part_002: ws.readyState of each connection
    roomsP2,        \* part_002: rooms : roomCode -> {peers, hostId, locked}
    wsRoom,        \* part_002: ws.room of each connection
    connected,     \* socket.io variants: socket.connected
    sio,           \* socket.io variants: the rooms each socket has joined
    roomsP4,       \* part_004: rooms : roomId -> {peers : Map}
    peers,         \* part_004: peers : socket.id -> {roomId, peerId}
    currentRoomP4, \* part_004: the connection closure's currentRoom
    roomsP0,       \* part_000 (join-room): rooms : roomId -> {participants, admin}
    orderP0,       \* part_000 (join-room): the insertion order of rooms (Map)
    timersP0,      \* part_000 (join-room): sockets with a pending welcome timer
    pendingP0,     \* part_000 (join-room): the callbacks of send-message that
                   \* have not run yet, each with the room object it holds
    users,         \* part_000 (joinRoom): users : socket.id -> {name, room}
    roomName,      \* part_000 (joinRoom): socket.roomName
    roomMessages,  \* part_000 (joinRoom): roomMessages : room -> messages
    vacated,       \* part_000 (joinRoom): history, the rooms every user has
                   \* left and nobody has joined since
    roomsP1,       \* part_001/003: rooms : roomCode -> room
    roomCodeP1,    \* part_001/003: socket.roomCode
    rateP1,        \* part_001/003: socketRateLimitMap
    sessionsP1,    \* part_001/003: userSessions
    handledP1,     \* part_001/003: history, the number of create-room and
                   \* join-room events handled so far
    allowedP1      \* part_001/003: history, per socket the times of the
                   \* events checkSocketRateLimit has allowed

serverVars == <<rooms, clientId, currentRoom, isAlive, view>>
p2Vars == <<roomsP2, wsRoom>>
sioVars == <<connected, sio>>
p4Vars == <<roomsP4, peers, currentRoomP4>>
chatVars == <<users, roomName, roomMessages, vacated>>
p0Vars == <<roomsP0, orderP0, timersP0, pendingP0, chatVars>>
p1Vars == <<roomsP1, roomCodeP1, rateP1, sessionsP1, handledP1, allowedP1>>
wsIdle == <<readyState, serverVars, p2Vars>>

vars == <<impl, now, outbox, event, readyState, serverVars, p2Vars,
          sioVars, p4Vars, p0Vars, p1Vars>>

\* ----------------------------------------------------------------- helpers
Event(type, c) == [type |-> type, conn |-> c]

Send(c, message) == [to |-> c, msg |-> message]

\* f with key k removed (Map.delete / delete obj[k])
Without(f, k) == [x \in DOMAIN f \ {k} |-> f[x]]

\* f with key k bound to v (Map.set / obj[k] = v)
With(f, k, v) == [x \in DOMAIN f \cup {k} |-> IF x = k THEN v ELSE f[x]]

\* the variables of a variant that does not run
\* ---- the client of server.js: its picture of the room, made of the
\* messages it has received: the 'joined' acknowledgement sets it, peer-joined
\* and peer-left change the roster, host-changed the host, room-lock the lock
NoView == [in |-> FALSE, me |-> Null, roster |-> {}, hostId |-> Null,
           locked |-> FALSE]

Seen(w, msg) ==
    CASE msg.type = "joined" ->
            [in |-> TRUE, me |-> msg.id,
             roster |-> {msg.peers[i].id : i \in DOMAIN msg.peers},
             hostId |-> msg.hostId, locked |-> msg.locked]
      [] msg.type = "peer-joined" -> [w EXCEPT !.roster = @ \cup {msg.id}]
      [] msg.type = "peer-left" -> [w EXCEPT !.roster = @ \ {msg.id}]
      [] msg.type = "host-changed" -> [w EXCEPT !.hostId = msg.hostId]
      [] msg.type = "room-lock" -> [w EXCEPT !.locked = msg.locked]
      [] OTHER -> w

\* the views after the messages of `out` have arrived, in the order sent
RECURSIVE Receive(_, _)
Receive(v, out) ==
    IF out = <<>> \/ DOMAIN v = {} THEN v
    ELSE Receive(IF Head(out).to \in DOMAIN v
                 THEN [v EXCEPT ![Head(out).to] = Seen(@, Head(out).msg)]
                 ELSE v,
                 Tail(out))

IdleServer ==
    /\ rooms = <<>> /\ clientId = <<>> /\ currentRoom = <<>> /\ isAlive = <<>>
    /\ view = <<>>
IdleP2 == roomsP2 = <<>> /\ wsRoom = <<>>
IdleWs == readyState = <<>> /\ IdleServer /\ IdleP2
IdleSio == connected = <<>> /\ sio = <<>>
IdleP4 == roomsP4 = <<>> /\ peers = <<>> /\ currentRoomP4 = <<>>
IdleChat ==
    users = <<>> /\ roomName = <<>> /\ roomMessages = <<>> /\ vacated = {}
\* part_000 (join-room): the callbacks send-message has registered (the
\* promise chain of the fetch, lines 403-428, the setTimeout of lines 433-441)
\* and that have not run; each holds `room`, the room object of line 376.
\* `dead` says that object has been taken out of the rooms Map (line 485)
MaxPending == 2
NoRequest == [kind |-> "none", room |-> NullRoom, dead |-> FALSE]
NoPending == [i \in 1..MaxPending |-> NoRequest]

\* rooms.delete(roomId), line 485: the callbacks keep the deleted object, and
\* a later join-room of the same roomId makes another one
Orphaned(pending, live) ==
    [i \in DOMAIN pending |->
        IF pending[i].kind # "none" /\ pending[i].room \notin live
        THEN [pending[i] EXCEPT !.dead = TRUE] ELSE pending[i]]

IdleJoinRoom ==
    roomsP0 = <<>> /\ orderP0 = <<>> /\ timersP0 = {} /\ pendingP0 = NoPending
IdleP0 == IdleJoinRoom /\ IdleChat
IdleP1 ==
    /\ roomsP1 = <<>> /\ roomCodeP1 = <<>> /\ rateP1 = <<>>
    /\ sessionsP1 = <<>> /\ handledP1 = 0 /\ allowedP1 = <<>>

\* ===================================================== src/server.js (ws)
\* connections of server.js: the acting ones, then the residents that joined
\* R1 once before the behaviour starts and stay connected
ServerConns == 1..(NumConns + MAX_ROOM_SIZE)

\* generateClientId: a fresh id, 'user_' + random + '_' + Date.now()
generateClientId == now

\* room.clients.has / keys
ClientIds(room) == {room.clients[i].id : i \in DOMAIN room.clients}

\* broadcastToRoom(roomCode, message, excludeClientId), on the registry rms
broadcastToRoom(rms, roomCode, message, excludeClientId) ==
    IF roomCode \notin DOMAIN rms THEN <<>>
    ELSE LET open == SelectSeq(rms[roomCode].clients,
                        LAMBDA cl : cl.id # excludeClientId
                                    /\ readyState'[cl.ws] = "OPEN")
         IN  [i \in 1..Len(open) |-> Send(open[i].ws, message)]

\* a delivery to the whole room instead of the one client
sendToClientAll(rms, roomCode, id, message) ==
    broadcastToRoom(rms, roomCode, message, Null)

\* sendToClient(roomCode, clientId, message)
sendToClient(rms, roomCode, id, message) ==
    IF roomCode \notin DOMAIN rms THEN <<>>
    ELSE LET hit == SelectSeq(rms[roomCode].clients,
                        LAMBDA cl : cl.id = id /\ readyState'[cl.ws] = "OPEN")
         IN  [i \in 1..Len(hit) |-> Send(hit[i].ws, message)]

\* handleJoin, lines 205-213: the room is created on demand
getOrCreate(rms, roomCode) ==
    IF roomCode \in DOMAIN rms THEN rms
    ELSE With(rms, roomCode, [clients |-> <<>>, locked |-> FALSE, hostId |-> Null])

JoinPolicyNoFull(room) ==
    IF room.locked /\ Len(room.clients) > 0 THEN "locked" ELSE "ok"

JoinPolicyFullFirst(room) ==
    IF Len(room.clients) >= MAX_ROOM_SIZE THEN "full"
    ELSE IF room.locked /\ Len(room.clients) > 0 THEN "locked"
    ELSE "ok"

JoinPolicyNoLock(room) ==
    IF Len(room.clients) >= MAX_ROOM_SIZE THEN "full" ELSE "ok"

\* handleJoin, lines 217-225: locked is tested before full
JoinPolicy(room) ==
    IF room.locked /\ Len(room.clients) > 0 THEN "locked"
    ELSE IF Len(room.clients) >= MAX_ROOM_SIZE THEN "full"
    ELSE "ok"

\* handleJoin, lines 232-237: the roster sent to the joiner
Roster(room, id) ==
    LET others == SelectSeq(room.clients, LAMBDA cl : cl.id # id)
    IN  [i \in 1..Len(others) |->
            [id |-> others[i].id, isHost |-> others[i].id = room.hostId]]

\* the notification of the others ahead of the joiner's acknowledgement
JoinedEmitsBroadcastFirst(c, id, isHost, rms, roomCode) ==
    broadcastToRoom(rms, roomCode,
        [type |-> "peer-joined", id |-> id,
         isHost |-> id = rms[roomCode].hostId], id)
    \o <<Send(c, [type |-> "joined", id |-> id,
                  hostId |-> rms[roomCode].hostId,
                  isHost |-> isHost,
                  locked |-> rms[roomCode].locked,
                  peers |-> Roster(rms[roomCode], id)])>>

\* handleJoin, lines 239-253: ws.send of 'joined', then broadcastToRoom of
\* 'peer-joined' to the others
JoinedEmits(c, id, isHost, rms, roomCode) ==
    <<Send(c, [type |-> "joined", id |-> id,
               hostId |-> rms[roomCode].hostId,
               isHost |-> isHost,
               locked |-> rms[roomCode].locked,
               peers |-> Roster(rms[roomCode], id)])>>
    \o broadcastToRoom(rms, roomCode,
           [type |-> "peer-joined", id |-> id,
            isHost |-> id = rms[roomCode].hostId], id)

handleJoin(c, roomCode) ==
    /\ impl = "server"
    /\ readyState[c] = "OPEN"
    /\ event' = Event("join", c)
    /\ UNCHANGED <<impl, readyState, isAlive, p2Vars, sioVars, p4Vars, p0Vars,
                   p1Vars>>
    /\ IF roomCode = NoCode
       THEN /\ outbox' = <<Send(c, [type |-> "error"])>>
            /\ UNCHANGED <<now, rooms, clientId, currentRoom>>
       ELSE /\ now < MAX_ROOM_SIZE + 1 + MaxJoins
            /\ now' = now + 1
            /\ clientId' = [clientId EXCEPT ![c] = generateClientId]
            /\ currentRoom' = [currentRoom EXCEPT ![c] = roomCode]
            /\ LET id     == generateClientId
                   rooms1 == getOrCreate(rooms, roomCode)
                   room   == rooms1[roomCode]
                   isHost == Len(room.clients) = 0
                   room2  == [room EXCEPT
                                !.hostId = IF isHost THEN id ELSE @,
                                !.clients = Append(@, [id |-> id, ws |-> c,
                                                       isHost |-> isHost])]
                   rooms2 == With(rooms1, roomCode, room2)
               IN  CASE JoinPolicy(room) = "locked" ->
                          /\ rooms' = rooms1
                          /\ outbox' = <<Send(c, [type |-> "locked"])>>
                     [] JoinPolicy(room) = "full" ->
                          /\ rooms' = rooms1
                          /\ outbox' = <<Send(c, [type |-> "full",
                                                  max |-> MAX_ROOM_SIZE])>>
                     [] OTHER ->
                          /\ rooms' = rooms2
                          /\ outbox' = JoinedEmits(c, id, isHost, rooms2, roomCode)
    /\ view' = Receive(view, outbox')

MayControlAnyMember(c, roomCode) ==
    roomCode \in DOMAIN rooms /\ clientId[c] \in ClientIds(rooms[roomCode])

\* handleControl, line 300: the room exists and the requester is its host
MayControl(c, roomCode) ==
    IF roomCode \notin DOMAIN rooms THEN FALSE
    ELSE clientId[c] = rooms[roomCode].hostId

handleControl(c, roomCode, action, value, targetId) ==
    /\ impl = "server"
    /\ readyState[c] = "OPEN"
    /\ event' = Event("control", c)
    /\ UNCHANGED <<impl, now, clientId, currentRoom, isAlive, readyState, p2Vars,
                   sioVars, p4Vars, p0Vars, p1Vars>>
    /\ IF ~MayControl(c, roomCode)
       THEN /\ outbox' = <<>>
            /\ UNCHANGED rooms
       ELSE CASE action = "lock-room" ->
                   /\ rooms' = [rooms EXCEPT ![roomCode].locked = value]
                   /\ outbox' = broadcastToRoom(rooms', roomCode,
                                    [type |-> "room-lock", locked |-> value], Null)
              [] action = "mute-mic" ->
                   /\ UNCHANGED rooms
                   /\ outbox' = IF targetId # Null /\ targetId # clientId[c]
                                THEN sendToClient(rooms, roomCode, targetId,
                                         [type |-> "control", action |-> "mute-mic"])
                                ELSE <<>>
              [] OTHER ->
                   /\ UNCHANGED rooms
                   /\ outbox' = <<>>
    /\ view' = Receive(view, outbox')

\* a falsy payload (msg.data missing) and a present one
NoData == ""
Payloads == {"sdp"}

\* handleSignal, lines 259-263: the room is the one the message names
handleSignal(c, roomCode, to, data) ==
    /\ impl = "server"
    /\ readyState[c] = "OPEN"
    /\ event' = Event("signal", c)
    /\ UNCHANGED <<impl, now, readyState, serverVars, p2Vars, sioVars, p4Vars,
                   p0Vars, p1Vars>>
    /\ outbox' = IF roomCode = NoCode \/ to = Null \/ data = NoData THEN <<>>
                 ELSE sendToClient(rooms, roomCode, to,
                          [type |-> "signal", from |-> clientId[c],
                           data |-> data])

\* handleStatus, lines 282-286
handleStatus(c, roomCode, action) ==
    /\ impl = "server"
    /\ readyState[c] = "OPEN"
    /\ event' = Event("status", c)
    /\ UNCHANGED <<impl, now, readyState, serverVars, p2Vars, sioVars, p4Vars,
                   p0Vars, p1Vars>>
    /\ outbox' = IF roomCode = NoCode \/ action = NoData THEN <<>>
                 ELSE broadcastToRoom(rooms, roomCode,
                          [type |-> "status", id |-> clientId[c],
                           action |-> action], Null)

\* handleReaction, lines 288-294
allowedEmojis == {"thumbs-up", "heart", "clap", "joy", "open-mouth", "tada",
                  "fire", "eyes"}

handleReaction(c, roomCode, emoji) ==
    /\ impl = "server"
    /\ readyState[c] = "OPEN"
    /\ event' = Event("reaction", c)
    /\ UNCHANGED <<impl, now, readyState, serverVars, p2Vars, sioVars, p4Vars,
                   p0Vars, p1Vars>>
    /\ outbox' = IF roomCode = NoCode \/ emoji = NoData
                    \/ emoji \notin allowedEmojis THEN <<>>
                 ELSE broadcastToRoom(rooms, roomCode,
                          [type |-> "reaction", id |-> clientId[c],
                           emoji |-> emoji], Null)

NewHostLast(clients) == clients[Len(clients)].id

\* ws.on('close'), line 328: room.clients.keys().next().value
NewHost(clients) == clients[1].id

AfterLeaveNoDelete(rms, roomCode, wasHost) ==
    LET room == rms[roomCode]
    IN  IF Len(room.clients) > 0 /\ wasHost
        THEN [rms EXCEPT ![roomCode].hostId = NewHost(room.clients),
                         ![roomCode].clients[1].isHost = TRUE]
        ELSE rms

AfterLeaveNoReassign(rms, roomCode, wasHost) ==
    IF Len(rms[roomCode].clients) = 0 THEN Without(rms, roomCode) ELSE rms

\* ws.on('close'), lines 325-332, on the registry after clients.delete
AfterLeave(rms, roomCode, wasHost) ==
    LET room == rms[roomCode]
        h    == NewHost(room.clients)
    IN  IF Len(room.clients) = 0 THEN Without(rms, roomCode)
        ELSE IF wasHost
        THEN [rms EXCEPT ![roomCode].hostId = h,
                         ![roomCode].clients =
                             [i \in DOMAIN @ |->
                                 IF @[i].id = h THEN [@[i] EXCEPT !.isHost = TRUE]
                                 ELSE @[i]]]
        ELSE rms

\* ws.on('close'), lines 315-334, for a socket in the given state
closeHandler(c, state) ==
    /\ impl = "server"
    /\ readyState[c] = state
    /\ readyState' = [readyState EXCEPT ![c] = "CLOSED"]
    /\ event' = Event("close", c)
    /\ UNCHANGED <<impl, now, clientId, currentRoom, isAlive, p2Vars, sioVars,
                   p4Vars, p0Vars, p1Vars>>
    /\ IF currentRoom[c] = NullRoom \/ clientId[c] = Null
          \/ currentRoom[c] \notin DOMAIN rooms
       THEN /\ outbox' = <<>>
            /\ UNCHANGED rooms
       ELSE LET roomCode == currentRoom[c]
                wasHost  == clientId[c] = rooms[roomCode].hostId
                rooms1   == [rooms EXCEPT ![roomCode].clients =
                                 SelectSeq(@, LAMBDA cl : cl.id # clientId[c])]
            IN  /\ rooms' = AfterLeave(rooms1, roomCode, wasHost)
                /\ outbox' =
                     broadcastToRoom(rooms1, roomCode,
                         [type |-> "peer-left", id |-> clientId[c]], Null)
                     \o IF Len(rooms1[roomCode].clients) > 0 /\ wasHost
                        THEN broadcastToRoom(rooms', roomCode,
                                 [type |-> "host-changed",
                                  hostId |-> rooms'[roomCode].hostId], Null)
                        ELSE <<>>
    /\ view' = Receive(view, outbox')

\* the close of an open connection
OnClose(c) == closeHandler(c, "OPEN")

\* the residents: `fill` connections that each joined R1 once, in order
ResidentClients(fill) ==
    [i \in 1..fill |-> [id |-> i, ws |-> NumConns + i, isHost |-> i = 1]]

InitServerBase ==
    /\ impl = "server"
    /\ now = MAX_ROOM_SIZE + 1
    /\ outbox = <<>>
    /\ event = Event("init", Null)
    /\ readyState = [c \in ServerConns |-> "OPEN"]
    /\ isAlive = [c \in ServerConns |-> TRUE]
    /\ IdleP2 /\ IdleSio /\ IdleP4 /\ IdleP0 /\ IdleP1
    /\ \E fill \in {0, MAX_ROOM_SIZE - 1} :
          /\ rooms = IF fill = 0 THEN <<>>
                     ELSE R1 :> [clients |-> ResidentClients(fill),
                                   locked |-> FALSE, hostId |-> 1]
          /\ clientId = [c \in ServerConns |->
                            IF c > NumConns /\ c <= NumConns + fill
                            THEN c - NumConns ELSE Null]
          /\ currentRoom = [c \in ServerConns |->
                               IF c > NumConns /\ c <= NumConns + fill
                               THEN R1 ELSE NullRoom]

\* the state after start-up; the clients' views are not followed
InitServer == InitServerBase /\ view = <<>>

\* the entries of connection c, as <<room, index>>
EntriesOf(c) ==
    UNION {{<<r, i>> : i \in {k \in DOMAIN rooms[r].clients :
                                  rooms[r].clients[k].ws = c}} :
           r \in DOMAIN rooms}

\* what the server holds for the member with id `me` of room r
ServerView(r, me) ==
    [in |-> TRUE, me |-> me, roster |-> ClientIds(rooms[r]) \ {me},
     hostId |-> rooms[r].hostId, locked |-> rooms[r].locked]

\* the state after start-up, with the views the residents have got from
\* their joins
InitServerView ==
    /\ InitServerBase
    /\ view = [c \in ServerConns |->
                  IF EntriesOf(c) = {} THEN NoView
                  ELSE LET e == CHOOSE e \in EntriesOf(c) : TRUE
                       IN  ServerView(e[1], rooms[e[1]].clients[e[2]].id)]

\* the connections that send control events: the acting ones and the first
\* resident (the host of a pre-filled room); the other residents only receive
ControlConns == Conns \cup {NumConns + 1}

\* the ids a control event names as msg.targetId: none, or the current id of
\* the first acting connection or of the second resident (a member of the
\* room or not)
TargetIds == {Null} \cup {clientId[x] : x \in {1, NumConns + 2}}

NextServer ==
    \/ \E c \in Conns, roomCode \in Rooms \cup {NoCode} : handleJoin(c, roomCode)
    \/ \E c \in ControlConns, roomCode \in Rooms, value \in BOOLEAN :
          handleControl(c, roomCode, "lock-room", value, Null)
    \/ /\ impl = "server"
       /\ \E c \in ControlConns, roomCode \in Rooms, targetId \in TargetIds :
             handleControl(c, roomCode, "mute-mic", FALSE, targetId)
    \/ \E c \in ControlConns : OnClose(c)

SpecServer == InitServer /\ [][NextServer]_vars

\* the messages that arrive when the sends to the sockets of failed fail
Delivered(messages, failed) ==
    SelectSeq(messages, LAMBDA m : m.to \notin failed)

\* handleJoin when sends fail. A failing send inside broadcastToRoom is caught
\* (lines 124-128); the ws.send calls to the joiner (lines 197, 218, 223 and
\* 239) stand outside any try: a failure there either throws, which ends the
\* handler at that line, or is swallowed by the socket (throws = FALSE)
handleJoinFailing(c, roomCode, failed, throws) ==
    /\ impl = "server"
    /\ readyState[c] = "OPEN"
    /\ event' = [type |-> "join", conn |-> c, failed |-> failed]
    /\ UNCHANGED <<impl, readyState, isAlive, p2Vars, sioVars, p4Vars, p0Vars,
                   p1Vars>>
    /\ IF roomCode = NoCode
       THEN /\ outbox' = Delivered(<<Send(c, [type |-> "error"])>>, failed)
            /\ UNCHANGED <<now, rooms, clientId, currentRoom>>
       ELSE /\ now < MAX_ROOM_SIZE + 1 + MaxJoins
            /\ now' = now + 1
            /\ clientId' = [clientId EXCEPT ![c] = generateClientId]
            /\ currentRoom' = [currentRoom EXCEPT ![c] = roomCode]
            /\ LET id     == generateClientId
                   rooms1 == getOrCreate(rooms, roomCode)
                   room   == rooms1[roomCode]
                   isHost == Len(room.clients) = 0
                   room2  == [room EXCEPT
                                !.hostId = IF isHost THEN id ELSE @,
                                !.clients = Append(@, [id |-> id, ws |-> c,
                                                       isHost |-> isHost])]
                   rooms2 == With(rooms1, roomCode, room2)
               IN  CASE JoinPolicy(room) = "locked" ->
                          /\ rooms' = rooms1
                          /\ outbox' = Delivered(<<Send(c, [type |-> "locked"])>>,
                                                 failed)
                     [] JoinPolicy(room) = "full" ->
                          /\ rooms' = rooms1
                          /\ outbox' = Delivered(
                                <<Send(c, [type |-> "full",
                                           max |-> MAX_ROOM_SIZE])>>, failed)
                     [] OTHER ->
                          /\ rooms' = rooms2
                          /\ outbox' =
                               IF c \in failed /\ throws THEN <<>>
                               ELSE Delivered(JoinedEmits(c, id, isHost, rooms2,
                                                          roomCode), failed)
    /\ view' = Receive(view, outbox')

\* joins during which the sends to the joiner, or to the first resident, fail
SendFailServer ==
    \E c \in Conns, roomCode \in Rooms \cup {NoCode}, throws \in BOOLEAN :
        \E failed \in {{c}, {NumConns + 1}} :
            handleJoinFailing(c, roomCode, failed, throws)

\* server.js with failing sends
SpecServerSendFail == InitServer /\ [][NextServer \/ SendFailServer]_vars

\* the heartbeat, lines 345-351: a socket whose isAlive is still false is
\* terminated (its 'close' event follows), the others get isAlive = false and
\* a ping. The residents answer every ping at once.
Heartbeat ==
    /\ impl = "server"
    /\ readyState' = [c \in DOMAIN readyState |->
                         IF readyState[c] = "OPEN" /\ ~isAlive[c]
                         THEN "CLOSING" ELSE readyState[c]]
    /\ isAlive' = [c \in DOMAIN isAlive |->
                       IF readyState[c] = "OPEN" /\ c \in Conns
                       THEN FALSE ELSE isAlive[c]]
    /\ event' = Event("heartbeat", Null)
    /\ outbox' = <<>>
    /\ UNCHANGED <<impl, now, rooms, clientId, currentRoom, view, p2Vars, sioVars,
                   p4Vars, p0Vars, p1Vars>>

\* ws.on('pong'), line 341: the answer to a ping
Pong(c) ==
    /\ impl = "server"
    /\ readyState[c] = "OPEN"
    /\ ~isAlive[c]
    /\ isAlive' = [isAlive EXCEPT ![c] = TRUE]
    /\ event' = Event("pong", c)
    /\ outbox' = <<>>
    /\ UNCHANGED <<impl, now, readyState, rooms, clientId, currentRoom, view,
                   p2Vars, sioVars, p4Vars, p0Vars, p1Vars>>

\* the 'close' event of a socket that ws.terminate() has destroyed
OnTerminated(c) == closeHandler(c, "CLOSING")

HeartbeatServer ==
    \/ Heartbeat
    \/ \E c \in Conns : Pong(c)
    \/ \E c \in Conns : OnTerminated(c)

\* server.js with its heartbeat: the timer keeps firing, and the 'close' event
\* of a terminated socket is delivered
SpecHeartbeat ==
    /\ InitServer
    /\ [][NextServer \/ HeartbeatServer]_vars
    /\ WF_vars(Heartbeat)
    /\ \A c \in Conns : WF_vars(OnTerminated(c))

\* the relay events of server.js: signal, status and reaction
Emojis == {"fire", "skull", NoData}

RelayServer ==
    \/ /\ impl = "server"
       /\ \E c \in ControlConns, roomCode \in Rooms \cup {NoCode},
             to \in TargetIds, data \in Payloads \cup {NoData} :
             handleSignal(c, roomCode, to, data)
    \/ \E c \in ControlConns, roomCode \in Rooms \cup {NoCode},
          action \in {"hand", NoData} : handleStatus(c, roomCode, action)
    \/ \E c \in ControlConns, roomCode \in Rooms \cup {NoCode},
          emoji \in Emojis : handleReaction(c, roomCode, emoji)

SpecServerRelay == InitServer /\ [][NextServer \/ RelayServer]_vars

\* the first resident sends join events too
RejoinServer ==
    \E roomCode \in Rooms : handleJoin(NumConns + 1, roomCode)

SpecServerRejoin == InitServer /\ [][NextServer \/ RejoinServer]_vars

\* ============================================= src/unnamed/part_002 (ws)
MAX_PER_ROOM == 8

\* connections of part_002: the acting ones, then the residents of R1.
\* ws.id is the connection itself.
P2Conns == 1..(NumConns + MAX_PER_ROOM)

\* the ws objects of roomObj.peers; each entry also keeps the time of its push
\* (not in the code: the array order is the only record of it there)
PeerIds(roomObj) == {roomObj.peers[i].ws : i \in DOMAIN roomObj.peers}

\* broadcast(roomObj, payload)
broadcast(roomObj, payload) ==
    LET open == SelectSeq(roomObj.peers, LAMBDA p : readyState'[p.ws] = "OPEN")
    IN  [i \in 1..Len(open) |-> Send(open[i].ws, payload)]

\* roomObj.peers.find(c => c.id === targetId), then the guarded send
sendToPeer(roomObj, targetId, payload) ==
    IF targetId \in PeerIds(roomObj) /\ readyState'[targetId] = "OPEN"
    THEN <<Send(targetId, payload)>> ELSE <<>>

JoinPolicy2NoFull(roomObj) == IF roomObj.locked THEN "locked" ELSE "ok"

JoinPolicy2NoLock(roomObj) ==
    IF Len(roomObj.peers) >= MAX_PER_ROOM THEN "full" ELSE "ok"

\* join branch, lines 73-81
JoinPolicy2(roomObj) ==
    IF roomObj.locked THEN "locked"
    ELSE IF Len(roomObj.peers) >= MAX_PER_ROOM THEN "full"
    ELSE "ok"

Join2(c, room) ==
    /\ impl = "part002"
    /\ readyState[c] = "OPEN"
    /\ event' = Event("join", c)
    /\ UNCHANGED <<impl, readyState, serverVars, sioVars, p4Vars, p0Vars, p1Vars>>
    /\ IF room \notin Rooms
       THEN /\ outbox' = <<Send(c, [type |-> "error"])>>
            /\ UNCHANGED <<now, roomsP2, wsRoom>>
       ELSE /\ now < MAX_PER_ROOM + 1 + MaxJoins
            /\ now' = now + 1
            /\ LET rooms1  == IF room \in DOMAIN roomsP2 THEN roomsP2
                              ELSE With(roomsP2, room,
                                       [peers |-> <<>>, hostId |-> c,
                                        locked |-> FALSE])
                   roomObj == rooms1[room]
                   existingPeers ==
                       [i \in DOMAIN roomObj.peers |->
                           [id |-> roomObj.peers[i].ws,
                            isHost |-> roomObj.peers[i].ws = roomObj.hostId]]
                   room2   == [roomObj EXCEPT
                                 !.peers = Append(@, [ws |-> c, at |-> now])]
                   others  == SelectSeq(room2.peers,
                                 LAMBDA p : p.ws # c /\ readyState[p.ws] = "OPEN")
               IN  CASE JoinPolicy2(roomObj) = "locked" ->
                          /\ roomsP2' = rooms1
                          /\ UNCHANGED wsRoom
                          /\ outbox' = <<Send(c, [type |-> "locked"])>>
                     [] JoinPolicy2(roomObj) = "full" ->
                          /\ roomsP2' = rooms1
                          /\ UNCHANGED wsRoom
                          /\ outbox' = <<Send(c, [type |-> "full",
                                                  max |-> MAX_PER_ROOM])>>
                     [] OTHER ->
                          /\ roomsP2' = With(rooms1, room, room2)
                          /\ wsRoom' = [wsRoom EXCEPT ![c] = room]
                          /\ outbox' =
                               <<Send(c, [type |-> "joined", id |-> c,
                                          isHost |-> c = room2.hostId,
                                          hostId |-> room2.hostId,
                                          locked |-> room2.locked,
                                          peers |-> existingPeers])>>
                               \o [i \in 1..Len(others) |->
                                      Send(others[i].ws,
                                           [type |-> "peer-joined", id |-> c,
                                            isHost |-> FALSE])]

\* findRoomOf(ws): the room code of ws if that room is in the registry
findRoomOf(c) ==
    IF wsRoom[c] # NullRoom /\ wsRoom[c] \in DOMAIN roomsP2 THEN wsRoom[c]
    ELSE NullRoom

Control2(c, action, value, targetId) ==
    /\ impl = "part002"
    /\ readyState[c] = "OPEN"
    /\ event' = Event("control", c)
    /\ UNCHANGED <<impl, now, readyState, wsRoom, serverVars, sioVars, p4Vars, p0Vars, p1Vars>>
    /\ IF findRoomOf(c) = NullRoom \/ roomsP2[findRoomOf(c)].hostId # c
       THEN /\ outbox' = <<>>
            /\ UNCHANGED roomsP2
       ELSE CASE action = "lock-room" ->
                   /\ roomsP2' = [roomsP2 EXCEPT ![findRoomOf(c)].locked = value]
                   /\ outbox' = broadcast(roomsP2'[findRoomOf(c)],
                                    [type |-> "room-lock", locked |-> value])
              [] action = "mute-mic" ->
                   /\ UNCHANGED roomsP2
                   /\ outbox' = IF targetId = Null THEN <<>>
                                ELSE sendToPeer(roomsP2[findRoomOf(c)], targetId,
                                         [type |-> "control", action |-> "mute-mic"])
              [] OTHER ->
                   /\ UNCHANGED roomsP2
                   /\ outbox' = <<>>

\* signal branch, lines 118-135
Signal2(c, targetId, data) ==
    /\ impl = "part002"
    /\ readyState[c] = "OPEN"
    /\ event' = Event("signal", c)
    /\ UNCHANGED <<impl, now, readyState, serverVars, p2Vars, sioVars, p4Vars,
                   p0Vars, p1Vars>>
    /\ outbox' = IF findRoomOf(c) = NullRoom \/ targetId = Null THEN <<>>
                 ELSE sendToPeer(roomsP2[findRoomOf(c)], targetId,
                          [type |-> "signal", from |-> c, data |-> data])

\* status branch, lines 184-194
Status2(c, action) ==
    /\ impl = "part002"
    /\ readyState[c] = "OPEN"
    /\ event' = Event("status", c)
    /\ UNCHANGED <<impl, now, readyState, serverVars, p2Vars, sioVars, p4Vars,
                   p0Vars, p1Vars>>
    /\ outbox' = IF findRoomOf(c) = NullRoom THEN <<>>
                 ELSE broadcast(roomsP2[findRoomOf(c)],
                          [type |-> "status", action |-> action, id |-> c])

\* reaction branch, lines 195-207: any non-empty emoji goes out
Reaction2(c, emoji) ==
    /\ impl = "part002"
    /\ readyState[c] = "OPEN"
    /\ event' = Event("reaction", c)
    /\ UNCHANGED <<impl, now, readyState, serverVars, p2Vars, sioVars, p4Vars,
                   p0Vars, p1Vars>>
    /\ outbox' = IF findRoomOf(c) = NullRoom \/ emoji = NoData THEN <<>>
                 ELSE broadcast(roomsP2[findRoomOf(c)],
                          [type |-> "reaction", id |-> c, emoji |-> emoji])

NewHost2Last(rest) == rest[Len(rest)].ws

\* ws.on("close"), lines 231-232: roomObj.peers[0].id
NewHost2(rest) == rest[1].ws

Close2(c) ==
    /\ impl = "part002"
    /\ readyState[c] = "OPEN"
    /\ readyState' = [readyState EXCEPT ![c] = "CLOSED"]
    /\ event' = Event("close", c)
    /\ UNCHANGED <<impl, now, wsRoom, serverVars, sioVars, p4Vars, p0Vars, p1Vars>>
    /\ IF findRoomOf(c) = NullRoom
       THEN /\ outbox' = <<>>
            /\ UNCHANGED roomsP2
       ELSE LET room  == wsRoom[c]
                rest  == SelectSeq(roomsP2[room].peers, LAMBDA p : p.ws # c)
                left  == [roomsP2[room] EXCEPT !.peers = rest]
            IN  IF Len(rest) = 0
                THEN /\ roomsP2' = Without(roomsP2, room)
                     /\ outbox' = <<>>
                ELSE IF roomsP2[room].hostId = c
                THEN /\ roomsP2' = With(roomsP2, room,
                                      [left EXCEPT !.hostId = NewHost2(rest)])
                     /\ outbox' =
                          broadcast(left, [type |-> "peer-left", id |-> c])
                          \o broadcast(left, [type |-> "host-changed",
                                              hostId |-> NewHost2(rest)])
                ELSE /\ roomsP2' = With(roomsP2, room, left)
                     /\ outbox' =
                          broadcast(left, [type |-> "peer-left", id |-> c])

ResidentPeers(fill) == [i \in 1..fill |-> [ws |-> NumConns + i, at |-> i]]

InitP2 ==
    /\ impl = "part002"
    /\ now = MAX_PER_ROOM + 1
    /\ outbox = <<>>
    /\ event = Event("init", Null)
    /\ readyState = [c \in P2Conns |-> "OPEN"]
    /\ IdleServer /\ IdleSio /\ IdleP4 /\ IdleP0 /\ IdleP1
    /\ \E fill \in {0, MAX_PER_ROOM - 1} :
          /\ roomsP2 = IF fill = 0 THEN <<>>
                      ELSE R1 :> [peers |-> ResidentPeers(fill),
                                  hostId |-> NumConns + 1, locked |-> FALSE]
          /\ wsRoom = [c \in P2Conns |->
                          IF c > NumConns /\ c <= NumConns + fill
                          THEN R1 ELSE NullRoom]

\* data.targetId of a mute-mic: none, the first acting connection or the
\* second resident
TargetIds2 == {Null, 1, NumConns + 2}

NextP2 ==
    \/ \E c \in Conns, room \in Rooms \cup {NoCode} : Join2(c, room)
    \/ \E c \in ControlConns, value \in BOOLEAN :
          Control2(c, "lock-room", value, Null)
    \/ \E c \in ControlConns, targetId \in TargetIds2 :
          Control2(c, "mute-mic", FALSE, targetId)
    \/ \E c \in ControlConns : Close2(c)

SpecP2 == InitP2 /\ [][NextP2]_vars

\* the relay events of part_002: signal, status and reaction
RelayP2 ==
    \/ \E c \in ControlConns, targetId \in TargetIds2,
          data \in Payloads \cup {NoData} : Signal2(c, targetId, data)
    \/ \E c \in ControlConns, action \in {"hand", NoData} : Status2(c, action)
    \/ \E c \in ControlConns, emoji \in Emojis : Reaction2(c, emoji)

SpecP2Relay == InitP2 /\ [][NextP2 \/ RelayP2]_vars

\* ===================================================== socket.io (shared)
\* chat events processed in a behaviour (each draws a fresh timestamp)
MaxChats == 2

\* the size of the per-room buffer of recent messages
\* (part_004 line 223, part_000 line 121)
HistoryLimit == 100

\* the connection that sends the chat messages of a behaviour
ChatConns == {1}

PushMessageNoShift(buffer, msg) == Append(buffer, msg)

\* push(msg), then shift() when the length has passed the limit
\* (part_004 lines 221-223, part_000 lines 117-123)
PushMessage(buffer, msg) ==
    LET pushed == Append(buffer, msg)
    IN  IF Len(pushed) > HistoryLimit THEN Tail(pushed) ELSE pushed

\* socket.to(room).emit / io.to(room).emit: one message to every socket that
\* has joined `room`, the sender left out when `except` names it; adapter is
\* the membership at the time of the emit
emitTo(adapter, room, except, message) ==
    LET S == {x \in DOMAIN adapter : room \in adapter[x] /\ x # except}
        ordered == SelectSeq([i \in DOMAIN adapter |-> i], LAMBDA x : x \in S)
    IN  [i \in 1..Len(ordered) |-> Send(ordered[i], message)]

\* ====================================== src/unnamed/part_004 (socket.io)
\* generatePeerId, line 81: one per connection; the connection number here
generatePeerId(s) == s

PeerKeys(room) == {room.peers[i].peerId : i \in DOMAIN room.peers}

\* getRoom(roomId): creation on demand
getRoom(rms, roomId) ==
    IF roomId \in DOMAIN rms THEN rms
    ELSE With(rms, roomId, [peers |-> <<>>, messages |-> <<>>])

\* broadcastToRoom(roomId, senderId, event, data): peer.socket.emit to every
\* peer of the room but senderId
broadcastToRoom4(rms, roomId, senderId, message) ==
    IF roomId \notin DOMAIN rms THEN <<>>
    ELSE LET others == SelectSeq(rms[roomId].peers,
                          LAMBDA p : p.peerId # senderId)
         IN  [i \in 1..Len(others) |-> Send(others[i].socket, message)]

DropPeerKeepRoom(rms, roomId, peerId) ==
    IF roomId \notin DOMAIN rms THEN rms
    ELSE [rms EXCEPT ![roomId].peers = SelectSeq(@, LAMBDA p : p.peerId # peerId)]

\* a removal that leaves the peer in its room
DropPeerStays(rms, roomId, peerId) == rms

\* peers.delete(peerId), then rooms.delete when the room is empty
\* (join-room lines 91-98, disconnect lines 272-281)
DropPeer(rms, roomId, peerId) ==
    IF roomId \notin DOMAIN rms THEN rms
    ELSE LET left == SelectSeq(rms[roomId].peers, LAMBDA p : p.peerId # peerId)
         IN  IF Len(left) = 0 THEN Without(rms, roomId)
             ELSE [rms EXCEPT ![roomId].peers = left]

JoinRoom4(s, roomId) ==
    /\ impl = "part004"
    /\ connected[s]
    /\ event' = Event("join", s)
    /\ UNCHANGED <<impl, now, connected, wsIdle, p0Vars, p1Vars>>
    /\ LET peerId == generatePeerId(s)
           rooms1 == IF currentRoomP4[s] # NullRoom
                     THEN DropPeer(roomsP4, currentRoomP4[s], peerId)
                     ELSE roomsP4
           rooms2 == getRoom(rooms1, roomId)
           rooms3 == [rooms2 EXCEPT ![roomId].peers =
                         Append(@, [peerId |-> peerId, socket |-> s])]
       IN  /\ roomsP4' = rooms3
           /\ sio' = [sio EXCEPT ![s] = (@ \ {currentRoomP4[s]}) \cup {roomId}]
           /\ currentRoomP4' = [currentRoomP4 EXCEPT ![s] = roomId]
           /\ peers' = With(peers, s, [roomId |-> roomId, peerId |-> peerId])
           /\ outbox' =
                emitTo(sio', roomId, s, [type |-> "peer-joined", peerId |-> peerId])
                \o <<Send(s, [type |-> "room-state", roomId |-> roomId,
                              you |-> peerId,
                              peers |-> SelectSeq(
                                  [i \in DOMAIN rooms3[roomId].peers |->
                                      rooms3[roomId].peers[i].peerId],
                                  LAMBDA id : id # peerId)])>>

Disconnect4(s) ==
    /\ impl = "part004"
    /\ connected[s]
    /\ connected' = [connected EXCEPT ![s] = FALSE]
    /\ sio' = [sio EXCEPT ![s] = {}]
    /\ event' = Event("close", s)
    /\ UNCHANGED <<impl, now, currentRoomP4, wsIdle, p0Vars, p1Vars>>
    /\ IF s \notin DOMAIN peers
       THEN /\ outbox' = <<>>
            /\ UNCHANGED <<roomsP4, peers>>
       ELSE LET roomId == peers[s].roomId
                peerId == peers[s].peerId
            IN  /\ roomsP4' = DropPeer(roomsP4, roomId, peerId)
                /\ peers' = Without(peers, s)
                /\ outbox' = broadcastToRoom4(roomsP4', roomId, peerId,
                                  [type |-> "peer-left", peerId |-> peerId,
                                   from |-> peerId])

\* socket.on('offer'), socket.on('answer'), socket.on('ice-candidate'),
\* lines 139-183: the same relay under three event names
SignalKinds == {"offer", "answer", "ice-candidate"}

Signal4(s, kind, to) ==
    /\ impl = "part004"
    /\ connected[s]
    /\ event' = Event(kind, s)
    /\ UNCHANGED <<impl, now, sioVars, p4Vars, wsIdle, p0Vars, p1Vars>>
    /\ outbox' =
         IF currentRoomP4[s] \notin DOMAIN roomsP4 THEN <<>>
         ELSE LET targetPeer == SelectSeq(roomsP4[currentRoomP4[s]].peers,
                                    LAMBDA p : p.peerId = to)
              IN  IF targetPeer = <<>> THEN <<>>
                  ELSE <<Send(targetPeer[1].socket,
                              [type |-> kind, from |-> generatePeerId(s)])>>

\* socket.on('chat-message'), lines 208-228
ChatMessage4(s, message) ==
    /\ impl = "part004"
    /\ connected[s]
    /\ event' = Event("chat", s)
    /\ UNCHANGED <<impl, sioVars, peers, currentRoomP4, wsIdle, p0Vars, p1Vars>>
    /\ IF currentRoomP4[s] = NullRoom
       THEN /\ outbox' = <<>>
            /\ UNCHANGED <<now, roomsP4>>
       ELSE /\ now < HistoryLimit + MaxChats
            /\ now' = now + 1
            /\ LET roomId == currentRoomP4[s]
                   messageData == [peerId |-> generatePeerId(s),
                                   message |-> message, timestamp |-> now]
               IN  /\ roomsP4' =
                        IF roomId \in DOMAIN roomsP4
                        THEN [roomsP4 EXCEPT ![roomId].messages =
                                 PushMessage(@, messageData)]
                        ELSE roomsP4
                   /\ outbox' = broadcastToRoom4(roomsP4, roomId,
                                    generatePeerId(s),
                                    [type |-> "chat-message",
                                     peerId |-> messageData.peerId,
                                     message |-> message,
                                     timestamp |-> now,
                                     from |-> generatePeerId(s)])

\* the messages a resident sent to its room before the behaviour starts
Backlog4(fill) ==
    [i \in 1..fill |-> [peerId |-> generatePeerId(NumConns + 1),
                        message |-> "hi", timestamp |-> i]]

\* the state after start-up, connections and, in one case, a resident that
\* joined R1 and sent HistoryLimit - 1 messages
InitP4Chat ==
    /\ impl = "part004"
    /\ now = HistoryLimit
    /\ outbox = <<>>
    /\ event = Event("init", Null)
    /\ IdleWs /\ IdleP0 /\ IdleP1
    /\ \E fill \in {0, HistoryLimit - 1} :
          /\ connected = [s \in 1..(NumConns + 1) |-> s <= NumConns \/ fill > 0]
          /\ sio = [s \in 1..(NumConns + 1) |->
                       IF s > NumConns /\ fill > 0 THEN {R1} ELSE {}]
          /\ roomsP4 = IF fill = 0 THEN <<>>
                       ELSE R1 :> [peers |-> <<[peerId |-> generatePeerId(NumConns + 1),
                                               socket |-> NumConns + 1]>>,
                                   messages |-> Backlog4(fill)]
          /\ peers = IF fill = 0 THEN <<>>
                     ELSE (NumConns + 1) :>
                              [roomId |-> R1,
                               peerId |-> generatePeerId(NumConns + 1)]
          /\ currentRoomP4 = [s \in 1..(NumConns + 1) |->
                                 IF s > NumConns /\ fill > 0 THEN R1
                                 ELSE NullRoom]

InitP4 ==
    /\ impl = "part004"
    /\ now = 0
    /\ outbox = <<>>
    /\ event = Event("init", Null)
    /\ IdleWs /\ IdleP0 /\ IdleP1
    /\ connected = [s \in Conns |-> TRUE]
    /\ sio = [s \in Conns |-> {}]
    /\ roomsP4 = <<>>
    /\ peers = <<>>
    /\ currentRoomP4 = [s \in Conns |-> NullRoom]

NextP4 ==
    \/ \E s \in Conns, roomId \in Rooms : JoinRoom4(s, roomId)
    \/ \E s \in Conns : Disconnect4(s)

SpecP4 == InitP4 /\ [][NextP4]_vars

\* the relay events of part_004; `to` names a peer id or nobody
RelayP4 ==
    \E s \in Conns, kind \in SignalKinds, to \in Conns \cup {Null} :
        Signal4(s, kind, to)

ChatP4 == \E s \in ChatConns, message \in {"hi"} : ChatMessage4(s, message)

SpecP4Chat == InitP4Chat /\ [][NextP4 \/ ChatP4]_vars

\* the three variants with their signalling relay
SpecRelay ==
    /\ InitServer \/ InitP2 \/ InitP4
    /\ [][NextServer \/ RelayServer \/ NextP2 \/ RelayP2 \/ NextP4 \/ RelayP4]_vars

\* =================== src/unnamed/part_000, lines 203-496 (socket.io)
\* the server with join-room / leave-room and rooms : Map of
\* {participants : Map, admin, botActive}. A participant entry also keeps
\* the time of its insertion (not in the code: the Map order is the only
\* record of it there).
\* sockets that are in room R1 from the start
Residents0 == 2
P0Conns == 1..(NumConns + Residents0)

ParticipantIds(room) == {room.participants[i].id : i \in DOMAIN room.participants}

\* io.to(socketId).emit: to that socket alone
emitToSocket(s, message) == IF connected'[s] THEN <<Send(s, message)>> ELSE <<>>

\* room.participants.set(socket.id, p): a new key goes last, an existing key
\* keeps its place and gets the new value
SetParticipant(ps, p) ==
    IF \E i \in DOMAIN ps : ps[i].id = p.id
    THEN [i \in DOMAIN ps |->
             IF ps[i].id = p.id THEN [p EXCEPT !.at = ps[i].at] ELSE ps[i]]
    ELSE Append(ps, p)

JoinRoom0(s, roomId) ==
    /\ impl = "part000"
    /\ connected[s]
    /\ now < Residents0 + 1 + MaxJoins
    /\ now' = now + 1
    /\ event' = Event("join", s)
    /\ UNCHANGED <<impl, connected, pendingP0, wsIdle, p4Vars, p1Vars, chatVars>>
    /\ sio' = [sio EXCEPT ![s] = @ \cup {roomId}]
    /\ timersP0' = timersP0 \cup {s}
    /\ LET rooms1 == IF roomId \in DOMAIN roomsP0 THEN roomsP0
                     ELSE With(roomsP0, roomId,
                              [participants |-> <<>>, admin |-> s])
           room   == rooms1[roomId]
           room2  == [room EXCEPT !.participants =
                         SetParticipant(@, [id |-> s, isAdmin |-> room.admin = s,
                                            at |-> now])]
       IN  /\ roomsP0' = With(rooms1, roomId, room2)
           /\ orderP0' = IF roomId \in DOMAIN roomsP0 THEN orderP0
                         ELSE Append(orderP0, roomId)
           /\ outbox' =
                emitTo(sio', roomId, Null,
                       [type |-> "new-message", log |-> "joined", room |-> roomId,
                        who |-> s])
                \o emitTo(sio', roomId, s,
                       [type |-> "user-joined", id |-> s,
                        isAdmin |-> room.admin = s])
                \o <<Send(s, [type |-> "room-data",
                              participants |-> room2.participants,
                              admin |-> room2.admin, roomId |-> roomId])>>

\* the setTimeout of join-room, lines 301-309
Welcome(s) ==
    /\ impl = "part000"
    /\ s \in timersP0
    /\ timersP0' = timersP0 \ {s}
    /\ event' = Event("timer", s)
    /\ outbox' = IF connected[s]
                 THEN <<Send(s, [type |-> "new-message", log |-> "welcome",
                                 room |-> NullRoom, who |-> s])>>
                 ELSE <<>>
    /\ UNCHANGED <<impl, now, sioVars, roomsP0, orderP0, pendingP0, wsIdle, p4Vars,
                   p1Vars, chatVars>>

NewAdminLast(participants) == participants[Len(participants)].id

\* handleLeaveRoom, line 476: room.participants.values().next().value
NewAdmin(participants) == participants[1].id

LeaveOneKeepEntry(st, s, roomId) ==
    IF s \notin ParticipantIds(st.rooms[roomId]) THEN st
    ELSE [st EXCEPT !.out = @ \o emitTo(st.adapter, roomId, Null,
                                       [type |-> "user-left", room |-> roomId,
                                        id |-> s])]

\* the body of handleLeaveRoom's rooms.forEach for one room, lines 463-488;
\* st = [rooms, adapter, out] is the state the loop has reached
LeaveOne(st, s, roomId) ==
    LET room == st.rooms[roomId]
        rest == SelectSeq(room.participants, LAMBDA p : p.id # s)
        reassign == room.admin = s /\ Len(rest) > 0
        room2 == [room EXCEPT !.participants = rest,
                              !.admin = IF reassign THEN NewAdmin(rest) ELSE @]
    IN  IF s \notin ParticipantIds(room) THEN st
        ELSE [rooms |-> IF Len(rest) = 0 THEN Without(st.rooms, roomId)
                        ELSE With(st.rooms, roomId, room2),
              adapter |-> [st.adapter EXCEPT ![s] = @ \ {roomId}],
              out |-> st.out
                  \o emitTo(st.adapter, roomId, Null,
                         [type |-> "new-message", log |-> "left",
                          room |-> roomId, who |-> s])
                  \o (IF reassign
                      THEN emitToSocket(NewAdmin(rest),
                               [type |-> "admin-assigned", room |-> roomId])
                      ELSE <<>>)
                  \o emitTo(st.adapter, roomId, Null,
                         [type |-> "user-left", room |-> roomId, id |-> s])]

\* handleLeaveRoom(socket): rooms.forEach over the rooms in Map order
RECURSIVE handleLeaveRoom(_, _, _)
handleLeaveRoom(st, s, todo) ==
    IF todo = <<>> THEN st
    ELSE handleLeaveRoom(LeaveOne(st, s, Head(todo)), s, Tail(todo))

LeaveRoom0(s) ==
    /\ impl = "part000"
    /\ connected[s]
    /\ event' = Event("leave", s)
    /\ UNCHANGED <<impl, now, connected, timersP0, wsIdle, p4Vars, p1Vars,
                   chatVars>>
    /\ \E st \in {handleLeaveRoom([rooms |-> roomsP0, adapter |-> sio,
                                  out |-> <<>>], s, orderP0)} :
           /\ roomsP0' = st.rooms
           /\ pendingP0' = Orphaned(pendingP0, DOMAIN st.rooms)
           /\ sio' = st.adapter
           /\ orderP0' = SelectSeq(orderP0, LAMBDA r : r \in DOMAIN st.rooms)
           /\ outbox' = st.out

\* socket.on('disconnect'): socket.io has taken the socket out of its rooms;
\* the event keeps whether it follows a leave-room of the same socket that
\* took the socket out of a room
Disconnect0(s) ==
    /\ impl = "part000"
    /\ connected[s]
    /\ connected' = [connected EXCEPT ![s] = FALSE]
    /\ event' = [type |-> "close", conn |-> s,
                 afterLeave |-> event = Event("leave", s) /\ outbox # <<>>]
    /\ UNCHANGED <<impl, now, timersP0, wsIdle, p4Vars, p1Vars, chatVars>>
    /\ \E st \in {handleLeaveRoom([rooms |-> roomsP0,
                                  adapter |-> [sio EXCEPT ![s] = {}],
                                  out |-> <<>>], s, orderP0)} :
           /\ roomsP0' = st.rooms
           /\ pendingP0' = Orphaned(pendingP0, DOMAIN st.rooms)
           /\ sio' = st.adapter
           /\ orderP0' = SelectSeq(orderP0, LAMBDA r : r \in DOMAIN st.rooms)
           /\ outbox' = st.out

\* the residents: `fill` sockets that each joined R1 once, in order
ResidentParticipants(fill) ==
    [i \in 1..fill |-> [id |-> NumConns + i, isAdmin |-> i = 1, at |-> i]]

InitP0 ==
    /\ impl = "part000"
    /\ now = Residents0 + 1
    /\ outbox = <<>>
    /\ event = Event("init", Null)
    /\ IdleWs /\ IdleP4 /\ IdleP1 /\ IdleChat
    /\ timersP0 = {}
    /\ pendingP0 = NoPending
    /\ \E fill \in {0, Residents0} :
        /\ connected = [s \in P0Conns |-> s <= NumConns + fill]
        /\ sio = [s \in P0Conns |->
                     IF s > NumConns /\ s <= NumConns + fill THEN {R1} ELSE {}]
        /\ roomsP0 = IF fill = 0 THEN <<>>
                     ELSE With(<<>>, R1,
                              [participants |-> ResidentParticipants(fill),
                               admin |-> NumConns + 1])
        /\ orderP0 = IF fill = 0 THEN <<>> ELSE <<R1>>

\* the sockets that leave: the connections and the first resident
LeaveConns == Conns \cup {NumConns + 1}

NextP0 ==
    \/ \E s \in Conns, roomId \in Rooms : JoinRoom0(s, roomId)
    \/ \E s \in Conns : Welcome(s)
    \/ \E s \in LeaveConns : LeaveRoom0(s)
    \/ \E s \in LeaveConns : Disconnect0(s)

SpecP0 == InitP0 /\ [][NextP0]_vars

\* ---- send-message, lines 375-443
\* the messages of send-message, as arrays of characters
webberPrefix == <<"/", "w", "e", "b", "b", "e", "r", " ">>
\* the keyword of line 432, its dotless i written as i
keyword == <<"k", "a", "t", "i", "l", "i", "m", "c", "i">>
Messages0 ==
    { webberPrefix \o <<"q">>, <<" ">> \o webberPrefix \o <<"q">>, webberPrefix,
      <<"K">> \o Tail(keyword), <<"h", "i">> }

RECURSIVE trimStart(_)
trimStart(str) ==
    IF str # <<>> /\ Head(str) = " " THEN trimStart(Tail(str)) ELSE str

RECURSIVE trimEnd(_)
trimEnd(str) ==
    IF str # <<>> /\ str[Len(str)] = " "
    THEN trimEnd(SubSeq(str, 1, Len(str) - 1)) ELSE str

\* String.prototype.trim
trim(str) == trimEnd(trimStart(str))

\* String.prototype.startsWith
startsWith(str, prefix) ==
    Len(str) >= Len(prefix) /\ SubSeq(str, 1, Len(prefix)) = prefix

\* String.prototype.substring(n)
substring(str, n) == SubSeq(str, n + 1, Len(str))

\* String.prototype.toLowerCase
toLowerCase(str) == [i \in DOMAIN str |-> IF str[i] = "K" THEN "k" ELSE str[i]]

\* String.prototype.includes
includes(str, part) ==
    \E i \in 1..(Len(str) - Len(part) + 1) :
        SubSeq(str, i, i + Len(part) - 1) = part

\* getRoomBySocket, lines 454-459: the first room of the Map that has the
\* socket as a participant
getRoomBySocket(s) ==
    LET found == SelectSeq(orderP0, LAMBDA r : s \in ParticipantIds(roomsP0[r]))
    IN  IF found = <<>> THEN NullRoom ELSE found[1]

\* io.to([...ids]).emit: each socket is in the room named by its id; an
\* empty array adds no room to the operator, and an emit of an operator
\* with no room goes to every socket of the namespace
emitToSockets(ids, message) ==
    LET S == {x \in DOMAIN sio : connected[x] /\ (ids = {} \/ x \in ids)}
        ordered == SelectSeq([i \in DOMAIN sio |-> i], LAMBDA x : x \in S)
    IN  [i \in 1..Len(ordered) |-> Send(ordered[i], message)]

\* what send-message registers for a message: the fetch of lines 403-428,
\* the setTimeout of lines 433-441, or nothing
Registered(message) ==
    IF startsWith(trim(message), webberPrefix)
    THEN IF trim(substring(message, 8)) # <<>> THEN "fetch" ELSE "none"
    ELSE IF includes(toLowerCase(message), keyword) THEN "timer" ELSE "none"

FreeSlots(pending) == {i \in DOMAIN pending : pending[i].kind = "none"}

\* [...room.participants.keys()] of the room object a callback holds
KeysOf(request) ==
    IF request.dead THEN {} ELSE ParticipantIds(roomsP0[request.room])

\* socket.on('send-message'), lines 375-443 (room.botActive is true in
\* every room: line 285 sets it and nothing clears it)
SendMessage0(s, message) ==
    /\ impl = "part000"
    /\ connected[s]
    /\ event' = [type |-> "send-message", conn |-> s,
                 registered |-> IF getRoomBySocket(s) = NullRoom THEN "none"
                                ELSE Registered(message)]
    /\ UNCHANGED <<impl, now, sioVars, roomsP0, orderP0, timersP0, wsIdle, p4Vars,
                   p1Vars, chatVars>>
    /\ LET roomId == getRoomBySocket(s)
           kind == Registered(message)
       IN  IF roomId = NullRoom
           THEN outbox' = <<>> /\ UNCHANGED pendingP0
           ELSE /\ kind # "none" => FreeSlots(pendingP0) # {}
                /\ outbox' =
                     emitToSockets(ParticipantIds(roomsP0[roomId]),
                         [type |-> "new-message", log |-> "chat",
                          room |-> roomId, who |-> s])
                     \o (IF kind = "fetch"
                         THEN emitToSocket(s, [type |-> "new-message",
                                               log |-> "preparing",
                                               room |-> roomId, who |-> Null])
                         ELSE <<>>)
                /\ pendingP0' =
                     IF kind = "none" THEN pendingP0
                     ELSE LET i == CHOOSE i \in FreeSlots(pendingP0) :
                                       \A j \in FreeSlots(pendingP0) : i <= j
                          IN  [pendingP0 EXCEPT ![i] =
                                  [kind |-> kind, room |-> roomId, dead |-> FALSE]]

\* the promise chain of the fetch, lines 409-428: .then emits data.reply,
\* .catch emits the error text; exactly one of the two callbacks runs
botResult(i, ok) ==
    /\ impl = "part000"
    /\ pendingP0[i].kind = "fetch"
    /\ pendingP0' = [pendingP0 EXCEPT ![i] = NoRequest]
    /\ event' = [type |-> "bot-result", conn |-> Null,
                 room |-> pendingP0[i].room]
    /\ outbox' = emitToSockets(KeysOf(pendingP0[i]),
                     [type |-> "new-message",
                      log |-> IF ok THEN "reply" ELSE "error",
                      room |-> pendingP0[i].room, who |-> Null])
    /\ UNCHANGED <<impl, now, sioVars, roomsP0, orderP0, timersP0, wsIdle, p4Vars,
                   p1Vars, chatVars>>

BotResolve(i) == \E ok \in BOOLEAN : botResult(i, ok)

\* the setTimeout callback of lines 433-441
BotCount(i) ==
    /\ impl = "part000"
    /\ pendingP0[i].kind = "timer"
    /\ pendingP0' = [pendingP0 EXCEPT ![i] = NoRequest]
    /\ event' = [type |-> "bot-count", conn |-> Null,
                 room |-> pendingP0[i].room]
    /\ outbox' = emitToSockets(KeysOf(pendingP0[i]),
                     [type |-> "new-message", log |-> "count",
                      room |-> pendingP0[i].room, who |-> Null,
                      size |-> Cardinality(KeysOf(pendingP0[i]))])
    /\ UNCHANGED <<impl, now, sioVars, roomsP0, orderP0, timersP0, wsIdle, p4Vars,
                   p1Vars, chatVars>>

BotP0 ==
    \/ \E s \in Conns, message \in Messages0 : SendMessage0(s, message)
    \/ \E i \in 1..MaxPending : BotResolve(i)
    \/ \E i \in 1..MaxPending : BotCount(i)

\* join-room, leave-room and send-message; a fetch settles (the request
\* goes to this server's own /api/gemini, which answers or fails)
SpecP0Bot ==
    /\ InitP0
    /\ [][NextP0 \/ BotP0]_vars
    /\ \A i \in 1..MaxPending : WF_vars(BotResolve(i))

\* ===================== src/unnamed/part_000, lines 1-201 (socket.io)
\* the server with joinRoom / chatMessage, users : socket.id -> {name, room}
\* and roomMessages : room -> messages
\* getUsersInRoom(room): the ids of the users of the room
getUsersInRoom(us, room) == {id \in DOMAIN us : us[id].room = room}

\* getRoomHistory(room)
getRoomHistory(room) ==
    IF room \in DOMAIN roomMessages THEN roomMessages[room] ELSE <<>>

\* history: the rooms that have no user after a handler and had one before
\* it, or were vacated already
Vacated(vac, before, after) ==
    {room \in Rooms :
        /\ getUsersInRoom(after, room) = {}
        /\ room \in vac \/ getUsersInRoom(before, room) # {}}

\* the three emits to a room a socket has left (joinRoom lines 73-85,
\* disconnect lines 183-194)
LeftEmits(adapter, us, room, s) ==
    emitTo(adapter, room, Null,
           [type |-> "roomUsers", room |-> room,
            users |-> getUsersInRoom(us, room)])
    \o emitTo(adapter, room, s, [type |-> "peer-left", id |-> s])
    \o emitTo(adapter, room, Null,
              [type |-> "systemMessage", room |-> room, log |-> "left"])

\* socket.on('joinRoom'), lines 39-104
joinRoom(s, room) ==
    /\ impl = "part000chat"
    /\ connected[s]
    /\ event' = Event("join", s)
    /\ UNCHANGED <<impl, now, connected, roomMessages, roomsP0, orderP0,
                   timersP0, pendingP0, wsIdle, p4Vars, p1Vars>>
    /\ IF room = NoCode
       THEN /\ outbox' = <<>>
            /\ UNCHANGED <<sio, users, roomName, vacated>>
       ELSE LET prevRoom == roomName[s]
            IN  /\ sio' = [sio EXCEPT ![s] = (@ \ {prevRoom}) \cup {room}]
                /\ roomName' = [roomName EXCEPT ![s] = room]
                /\ users' = With(users, s, [room |-> room])
                /\ vacated' = Vacated(vacated, users, users')
                /\ outbox' =
                     (IF prevRoom # NullRoom /\ prevRoom # room
                      THEN LeftEmits(sio', users', prevRoom, s) ELSE <<>>)
                     \o emitTo(sio', room, Null,
                               [type |-> "roomUsers", room |-> room,
                                users |-> getUsersInRoom(users', room)])
                     \o <<Send(s, [type |-> "roomHistory", room |-> room,
                                   messages |-> getRoomHistory(room)])>>
                     \o emitTo(sio', room, s,
                               [type |-> "systemMessage", room |-> room,
                                log |-> "joined"])

\* socket.on('chatMessage'), lines 107-129: the room is the one the event names
chatMessage(s, room, text) ==
    /\ impl = "part000chat"
    /\ connected[s]
    /\ event' = Event("chat", s)
    /\ UNCHANGED <<impl, sioVars, users, roomName, vacated, roomsP0, orderP0,
                   timersP0, pendingP0, wsIdle, p4Vars, p1Vars>>
    /\ IF room = NoCode \/ text = NoData
       THEN /\ outbox' = <<>>
            /\ UNCHANGED <<now, roomMessages>>
       ELSE /\ now < HistoryLimit + MaxChats
            /\ now' = now + 1
            /\ LET msg == [text |-> text, time |-> now, from |-> s]
               IN  /\ roomMessages' =
                        With(roomMessages, room,
                             PushMessage(getRoomHistory(room), msg))
                   /\ outbox' = emitTo(sio, room, Null,
                                    [type |-> "chatMessage", text |-> text,
                                     time |-> now, from |-> s])

\* socket.on('disconnect'), lines 176-196
disconnect(s) ==
    /\ impl = "part000chat"
    /\ connected[s]
    /\ connected' = [connected EXCEPT ![s] = FALSE]
    /\ sio' = [sio EXCEPT ![s] = {}]
    /\ event' = Event("close", s)
    /\ UNCHANGED <<impl, now, roomName, roomMessages, roomsP0, orderP0,
                   timersP0, pendingP0, wsIdle, p4Vars, p1Vars>>
    /\ IF s \notin DOMAIN users
       THEN /\ outbox' = <<>>
            /\ UNCHANGED <<users, vacated>>
       ELSE /\ users' = Without(users, s)
            /\ vacated' = Vacated(vacated, users, users')
            /\ outbox' = LeftEmits(sio', users', users[s].room, s)

\* the messages room R1 got before the behaviour starts
Backlog(fill) ==
    [i \in 1..fill |-> [text |-> "hi", time |-> i, from |-> NumConns + 1]]

\* the state after start-up, connections and, in one case, HistoryLimit - 1
\* chat messages to R1 from a socket that has gone since
InitChat ==
    /\ impl = "part000chat"
    /\ now = HistoryLimit
    /\ outbox = <<>>
    /\ event = Event("init", Null)
    /\ IdleWs /\ IdleP4 /\ IdleP1 /\ IdleJoinRoom
    /\ connected = [s \in Conns |-> TRUE]
    /\ sio = [s \in Conns |-> {}]
    /\ users = <<>>
    /\ vacated = {}
    /\ roomName = [s \in Conns |-> NullRoom]
    /\ \E fill \in {0, HistoryLimit - 1} :
          roomMessages = IF fill = 0 THEN <<>> ELSE R1 :> Backlog(fill)

NextChat ==
    \/ \E s \in Conns, room \in Rooms \cup {NoCode} : joinRoom(s, room)
    \/ \E s \in ChatConns, room \in Rooms \cup {NoCode}, text \in {"hi", NoData} :
          chatMessage(s, room, text)
    \/ \E s \in Conns : disconnect(s)

\* the two variants with a buffer of recent messages
SpecChat ==
    /\ InitP4Chat \/ InitChat
    /\ [][NextP4 \/ ChatP4 \/ NextChat]_vars

\* =========== src/unnamed/part_001 and src/unnamed/part_003 (socket.io)
\* rooms : Map of {users, lastActivity, settings.maxUsers, stats.totalUsers},
\* created by create-room and kept when empty; a rate limiter in front of
\* every handler. Room codes and names are sequences of characters.
P13 == {"part001", "part003"}

maxUsers == 10
codeLength == 6
maxUsernameLength == 20
maxEventsPerMinute == 60
windowMs == 60000

\* create-room and join-room events in one run
MaxEvents == 3
\* jumps of the clock past a rate-limit window
MaxTicks == 1

CodeA == <<"A", "B", "C", "1", "2", "3">>
CodeB == <<"X", "Y", "Z", "7", "8", "9">>
LowerCode == <<"a", "b", "c", "1", "2", "3">>
TEMPORARY == <<"T", "E", "M", "P", "O", "R", "A", "R", "Y">>
RoomCodes == {CodeA, CodeB}
UpperAlnum == {"A", "B", "C", "E", "M", "O", "P", "R", "T", "X", "Y", "Z",
               "1", "2", "3", "7", "8", "9"}
Names == {<<"a", "n", "n">>, <<"<", "b", ">">>}

P1Conns == 1..(NumConns + maxUsers - 1)

\* sanitizeHtml(text, {allowedTags: []}): the markup goes, the text stays
RECURSIVE StripTags(_, _)
StripTags(text, inTag) ==
    IF text = <<>> THEN <<>>
    ELSE IF Head(text) = "<" THEN StripTags(Tail(text), TRUE)
    ELSE IF Head(text) = ">" /\ inTag THEN StripTags(Tail(text), FALSE)
    ELSE IF inTag THEN StripTags(Tail(text), TRUE)
    ELSE <<Head(text)>> \o StripTags(Tail(text), FALSE)

sanitizeHtml(text) == StripTags(text, FALSE)

validateJoinRoom(roomCode, userName) ==
    (IF roomCode = <<>> THEN <<"Oda kodu gereklidir">>
     ELSE IF Len(roomCode) # codeLength THEN <<"Oda kodu 6 haneli olmalidir">>
     ELSE IF \E i \in DOMAIN roomCode : roomCode[i] \notin UpperAlnum
          THEN <<"Oda kodu sadece buyuk harf ve rakamlardan olusabilir">>
     ELSE <<>>)
    \o
    (IF userName = <<>> THEN <<"Kullanici adi gereklidir">>
     ELSE IF Len(sanitizeHtml(userName)) = 0 THEN <<"Gecersiz kullanici adi">>
     ELSE IF Len(sanitizeHtml(userName)) > maxUsernameLength
          THEN <<"Kullanici adi 20 karakteri gecemez">>
     ELSE <<>>)

\* create-room of part_001, lines 258-278: the checks of the name
validateCreate1(userName) ==
    IF userName = <<>> THEN <<"Kullanici adi gereklidir">>
    ELSE IF Len(sanitizeHtml(userName)) = 0 THEN <<"Gecersiz kullanici adi">>
    ELSE IF Len(sanitizeHtml(userName)) > maxUsernameLength
         THEN <<"Kullanici adi 20 karakteri gecemez">>
    ELSE <<>>

\* a limiter that rejects one event late (count > maxEvents)
checkSocketRateLimitLate(rate, s, t) ==
    IF s \notin DOMAIN rate
    THEN [ok |-> TRUE, rate |-> With(rate, s, [count |-> 1, firstEvent |-> t])]
    ELSE IF t - rate[s].firstEvent > windowMs
    THEN [ok |-> TRUE, rate |-> With(rate, s, [count |-> 1, firstEvent |-> t])]
    ELSE IF rate[s].count > maxEventsPerMinute
    THEN [ok |-> FALSE, rate |-> rate]
    ELSE [ok |-> TRUE,
          rate |-> With(rate, s, [rate[s] EXCEPT !.count = @ + 1])]

\* checkSocketRateLimit(socket) at time t: [ok, rate]
checkSocketRateLimit(rate, s, t) ==
    IF s \notin DOMAIN rate
    THEN [ok |-> TRUE, rate |-> With(rate, s, [count |-> 1, firstEvent |-> t])]
    ELSE IF t - rate[s].firstEvent > windowMs
    THEN [ok |-> TRUE, rate |-> With(rate, s, [count |-> 1, firstEvent |-> t])]
    ELSE IF rate[s].count >= maxEventsPerMinute
    THEN [ok |-> FALSE, rate |-> rate]
    ELSE [ok |-> TRUE,
          rate |-> With(rate, s, [rate[s] EXCEPT !.count = @ + 1])]

\* the history without the events that lie a window or more before t: no
\* interval of length windowMs holds one of them and an event at t or later
Recent(allowed, t) ==
    [s \in DOMAIN allowed |->
        SelectSeq(allowed[s], LAMBDA x : x > t - windowMs)]

\* the history of allowed events after a call of checkSocketRateLimit at t
Allowed(allowed, s, ok, t) ==
    IF ok THEN [allowed EXCEPT ![s] = Append(@, t)] ELSE allowed

\* the model lets MaxEvents create-room and join-room events arrive
Budget(s) == handledP1 < MaxEvents

\* io.emit: to every connected socket
emitAll(message) ==
    LET ordered == SelectSeq([i \in DOMAIN connected' |-> i],
                             LAMBDA x : connected'[x])
    IN  [i \in 1..Len(ordered) |-> Send(ordered[i], message)]

\* updateStats(): io.emit('stats-updated', stats)
RECURSIVE SumUsers(_, _)
SumUsers(rms, codes) ==
    IF codes = {} THEN 0
    ELSE LET c == CHOOSE c \in codes : TRUE
         IN  Len(rms[c].users) + SumUsers(rms, codes \ {c})

updateStats(rms, sessions) ==
    emitAll([type |-> "stats-updated",
             roomCount |-> Cardinality({c \in DOMAIN rms : Len(rms[c].users) > 0}),
             totalUsers |-> SumUsers(rms, DOMAIN rms),
             totalConnections |-> Cardinality(DOMAIN sessions)])

Error(s, text) == <<Send(s, [type |-> "error", message |-> text])>>

RateLimited(s) == Error(s, "Cok hizli istek gonderiyorsunuz. Lutfen bekleyin.")

Touch(sessions, s) == With(sessions, s, [lastActivity |-> now])

\* socket.on('create-room'); generateRoomCode draws a code at random, up to
\* eleven times: any free code, or the failure after too many taken ones
CreateRoom1(s, userName) ==
    /\ impl \in P13
    /\ connected[s]
    /\ Budget(s)
    /\ event' = Event("create", s)
    /\ handledP1' = handledP1 + 1
    /\ UNCHANGED <<impl, now, sioVars, roomCodeP1, wsIdle, p4Vars, p0Vars>>
    /\ LET lim    == checkSocketRateLimit(rateP1, s, now)
           errors == IF impl = "part001" THEN validateCreate1(userName)
                     ELSE validateJoinRoom(TEMPORARY, userName)
       IN  /\ rateP1' = lim.rate
           /\ allowedP1' = Allowed(allowedP1, s, lim.ok, now)
           /\ IF ~lim.ok
              THEN /\ outbox' = RateLimited(s)
                   /\ UNCHANGED <<roomsP1, sessionsP1>>
              ELSE /\ sessionsP1' = Touch(sessionsP1, s)
                   /\ IF errors # <<>>
                      THEN /\ outbox' = Error(s, errors[1])
                           /\ UNCHANGED roomsP1
                      ELSE \/ /\ DOMAIN roomsP1 # {}
                              /\ outbox' = Error(s, "Oda olusturulamadi. Lutfen tekrar deneyin.")
                              /\ UNCHANGED roomsP1
                           \/ \E roomCode \in RoomCodes \ DOMAIN roomsP1 :
                                /\ roomsP1' = With(roomsP1, roomCode,
                                       [users |-> <<>>, createdAt |-> now,
                                        lastActivity |-> now,
                                        maxUsers |-> maxUsers,
                                        totalUsers |-> 0,
                                        totalMessages |-> 0])
                                /\ outbox' =
                                     <<Send(s, [type |-> "room-created",
                                                roomCode |-> roomCode])>>
                                     \o updateStats(roomsP1', sessionsP1')

\* the emits of a successful join-room, part_001 lines 376-410 and
\* part_003 lines 397-410
JoinEmits(s, roomCode, user, room) ==
    IF impl = "part001"
    THEN <<Send(s, [type |-> "room-joined", roomCode |-> roomCode,
                    user |-> user, participants |-> room.users])>>
         \o emitTo(sio', roomCode, s, [type |-> "new-user-joined", socketId |-> s])
         \o emitTo(sio', roomCode, s, [type |-> "user-joined", socketId |-> s,
                                       participants |-> room.users])
         \o emitTo(sio', roomCode, Null, [type |-> "update-participants",
                                          participants |-> room.users])
         \o emitTo(sio', roomCode, s, [type |-> "receive-message",
                                       log |-> "joined", who |-> s])
    ELSE <<Send(s, [type |-> "room-joined", roomCode |-> roomCode,
                    user |-> user, participants |-> room.users])>>
         \o emitTo(sio', roomCode, s, [type |-> "user-joined", user |-> user])
         \o emitTo(sio', roomCode, Null, [type |-> "update-participants",
                                          participants |-> room.users])
         \o emitTo(sio', roomCode, Null, [type |-> "new-message",
                                          log |-> "joined", who |-> s])

\* the checks without the search for the socket in room.users
JoinCheckNoDuplicate(room, s) ==
    IF Len(room.users) >= room.maxUsers
    THEN "Oda dolu! Maksimum kullanici sayisina ulasildi."
    ELSE "ok"

JoinCheckNoFull(room, s) ==
    IF \E i \in DOMAIN room.users : room.users[i].id = s
    THEN "Zaten bu odadasiniz!"
    ELSE "ok"

\* join-room's checks of the room, part_001 lines 347-357
JoinCheck(room, s) ==
    IF Len(room.users) >= room.maxUsers
    THEN "Oda dolu! Maksimum kullanici sayisina ulasildi."
    ELSE IF \E i \in DOMAIN room.users : room.users[i].id = s
    THEN "Zaten bu odadasiniz!"
    ELSE "ok"

\* socket.on('join-room')
JoinRoom1(s, code, userName) ==
    /\ impl \in P13
    /\ connected[s]
    /\ Budget(s)
    /\ event' = Event("join", s)
    /\ handledP1' = handledP1 + 1
    /\ UNCHANGED <<impl, now, connected, wsIdle, p4Vars, p0Vars>>
    /\ LET lim    == checkSocketRateLimit(rateP1, s, now)
           errors == validateJoinRoom(code, userName)
           \* data.roomCode.toUpperCase(): the validator has let through
           \* upper-case letters and digits only
           roomCode == code
       IN  /\ rateP1' = lim.rate
           /\ allowedP1' = Allowed(allowedP1, s, lim.ok, now)
           /\ IF ~lim.ok
              THEN /\ outbox' = RateLimited(s)
                   /\ UNCHANGED <<roomsP1, sessionsP1, roomCodeP1, sio>>
              ELSE /\ sessionsP1' = Touch(sessionsP1, s)
                   /\ IF errors # <<>>
                      THEN /\ outbox' = Error(s, errors[1])
                           /\ UNCHANGED <<roomsP1, roomCodeP1, sio>>
                      ELSE IF roomCode \notin DOMAIN roomsP1
                      THEN /\ outbox' = Error(s, "Oda bulunamadi!")
                           /\ UNCHANGED <<roomsP1, roomCodeP1, sio>>
                      ELSE IF JoinCheck(roomsP1[roomCode], s) # "ok"
                      THEN /\ outbox' = Error(s, JoinCheck(roomsP1[roomCode], s))
                           /\ UNCHANGED <<roomsP1, roomCodeP1, sio>>
                      ELSE LET room == roomsP1[roomCode]
                               user == [id |-> s, joinedAt |-> now,
                                        isHost |-> Len(room.users) = 0,
                                        isMuted |-> TRUE]
                               room2 == [room EXCEPT
                                            !.users = Append(@, user),
                                            !.lastActivity = now,
                                            !.totalUsers = @ + 1]
                           IN  /\ sio' = [sio EXCEPT ![s] = @ \cup {roomCode}]
                               /\ roomCodeP1' = [roomCodeP1 EXCEPT ![s] = roomCode]
                               /\ roomsP1' = With(roomsP1, roomCode, room2)
                               /\ outbox' = JoinEmits(s, roomCode, user, room2)
                                     \o updateStats(roomsP1', sessionsP1')

\* the emits of a disconnect that removed the user, part_001 lines 558-578
\* and part_003 lines 485-494; the socket has left its socket.io rooms
LeaveEmits(s, roomCode, user, room) ==
    IF impl = "part001"
    THEN emitTo(sio', roomCode, s, [type |-> "user-disconnected", socketId |-> s])
         \o emitTo(sio', roomCode, s, [type |-> "user-left", socketId |-> s,
                                       participants |-> room.users])
         \o emitTo(sio', roomCode, Null, [type |-> "update-participants",
                                          participants |-> room.users])
         \o emitTo(sio', roomCode, s, [type |-> "receive-message",
                                       log |-> "left", who |-> s])
    ELSE emitTo(sio', roomCode, Null, [type |-> "user-left", user |-> user])
         \o emitTo(sio', roomCode, Null, [type |-> "update-participants",
                                          participants |-> room.users])
         \o emitTo(sio', roomCode, Null, [type |-> "new-message",
                                          log |-> "left", who |-> s])

\* socket.on('disconnect')
Disconnect1(s) ==
    /\ impl \in P13
    /\ connected[s]
    /\ connected' = [connected EXCEPT ![s] = FALSE]
    /\ sio' = [sio EXCEPT ![s] = {}]
    /\ event' = Event("close", s)
    /\ sessionsP1' = Without(sessionsP1, s)
    /\ rateP1' = Without(rateP1, s)
    /\ UNCHANGED <<impl, now, roomCodeP1, handledP1, allowedP1, wsIdle, p4Vars,
                   p0Vars>>
    /\ LET roomCode == roomCodeP1[s]
       IN  IF /\ roomCode # <<>>
              /\ roomCode \in DOMAIN roomsP1
              /\ \E i \in DOMAIN roomsP1[roomCode].users :
                     roomsP1[roomCode].users[i].id = s
           THEN LET room == roomsP1[roomCode]
                    userIndex == CHOOSE i \in DOMAIN room.users :
                                     /\ room.users[i].id = s
                                     /\ \A j \in 1..(i - 1) : room.users[j].id # s
                    rest == [i \in 1..(Len(room.users) - 1) |->
                                IF i < userIndex THEN room.users[i]
                                ELSE room.users[i + 1]]
                    room2 == [room EXCEPT
                                 !.users = rest,
                                 !.lastActivity = IF Len(rest) = 0 THEN now ELSE @]
                IN  /\ roomsP1' = With(roomsP1, roomCode, room2)
                    /\ outbox' = LeaveEmits(s, roomCode, room.users[userIndex], room2)
                                    \o updateStats(roomsP1', sessionsP1')
           ELSE /\ outbox' = <<>>
                /\ UNCHANGED roomsP1

\* the clock passes the end of the running rate-limit windows, while there
\* is a window and an event to come
Tick ==
    /\ impl \in P13
    /\ DOMAIN rateP1 # {}
    /\ handledP1 < MaxEvents
    /\ now \div (windowMs + 1) < MaxTicks
    /\ now' = now + windowMs + 1
    /\ event' = Event("tick", Null)
    /\ outbox' = <<>>
    /\ allowedP1' = Recent(allowedP1, now')
    /\ UNCHANGED <<impl, sioVars, roomsP1, roomCodeP1, rateP1, sessionsP1,
                   handledP1, wsIdle, p4Vars, p0Vars>>

ResidentUsers(fill) ==
    [i \in 1..fill |-> [id |-> NumConns + i, joinedAt |-> 0, isHost |-> i = 1,
                        isMuted |-> TRUE]]

\* part_001 starts either empty or with room CodeA one short of maxUsers;
\* socket 1 either has sent nothing or is one event short of its limit
InitP1 ==
    /\ impl = "part001"
    /\ now = 0
    /\ outbox = <<>>
    /\ event = Event("init", Null)
    /\ IdleWs /\ IdleP4 /\ IdleP0
    /\ \E fill \in {0, maxUsers - 1}, burst \in {0, maxEventsPerMinute - 1} :
        /\ fill = 0 \/ burst = 0
        /\ connected = [s \in P1Conns |-> s <= NumConns + fill]
        /\ sio = [s \in P1Conns |->
                     IF s > NumConns /\ s <= NumConns + fill THEN {CodeA} ELSE {}]
        /\ roomsP1 = IF fill = 0 THEN <<>>
                     ELSE With(<<>>, CodeA,
                              [users |-> ResidentUsers(fill), createdAt |-> 0,
                               lastActivity |-> 0, maxUsers |-> maxUsers,
                               totalUsers |-> fill, totalMessages |-> 0])
        /\ roomCodeP1 = [s \in P1Conns |->
                     IF s > NumConns /\ s <= NumConns + fill THEN CodeA ELSE <<>>]
        /\ rateP1 = IF burst = 0 THEN <<>>
                    ELSE With(<<>>, 1, [count |-> burst, firstEvent |-> 0])
        /\ sessionsP1 = [s \in 1..(NumConns + fill) |-> [lastActivity |-> 0]]
        /\ handledP1 = 0
        /\ allowedP1 = [s \in P1Conns |->
                           IF s = 1 THEN [i \in 1..burst |-> 0] ELSE <<>>]

\* part_003: no room can exist (create-room never gets past its validation)
InitP3 ==
    /\ impl = "part003"
    /\ now = 0
    /\ outbox = <<>>
    /\ event = Event("init", Null)
    /\ IdleWs /\ IdleP4 /\ IdleP0
    /\ \E burst \in {0, maxEventsPerMinute - 1} :
        /\ connected = [s \in P1Conns |-> s <= NumConns]
        /\ sio = [s \in P1Conns |-> {}]
        /\ roomsP1 = <<>>
        /\ roomCodeP1 = [s \in P1Conns |-> <<>>]
        /\ rateP1 = IF burst = 0 THEN <<>>
                    ELSE With(<<>>, 1, [count |-> burst, firstEvent |-> 0])
        /\ sessionsP1 = [s \in 1..NumConns |-> [lastActivity |-> 0]]
        /\ handledP1 = 0
        /\ allowedP1 = [s \in P1Conns |->
                           IF s = 1 THEN [i \in 1..burst |-> 0] ELSE <<>>]

NextP1 ==
    \/ \E s \in Conns, userName \in Names : CreateRoom1(s, userName)
    \/ \E s \in Conns, code \in RoomCodes \cup {LowerCode},
          userName \in Names : JoinRoom1(s, code, userName)
    \/ \E s \in Conns : Disconnect1(s)
    \/ Tick

SpecP1 == InitP1 /\ [][NextP1]_vars

SpecP13 == (InitP1 \/ InitP3) /\ [][NextP1]_vars

inactiveTimeout == 7200000

InactiveWithUsers(room, t) == t - room.lastActivity > inactiveTimeout

\* cleanupInactiveRooms, part_001 line 176 and part_003 line 202
Inactive(room, t) ==
    Len(room.users) = 0 /\ t - room.lastActivity > inactiveTimeout

\* cleanupInactiveRooms, part_001 lines 171-186 and part_003 lines 197-212
cleanupInactiveRooms ==
    /\ impl \in P13
    /\ roomsP1' = [r \in {x \in DOMAIN roomsP1 : ~Inactive(roomsP1[x], now)} |->
                      roomsP1[r]]
    /\ event' = Event("cleanup", Null)
    /\ outbox' = <<>>
    /\ UNCHANGED <<impl, now, sioVars, roomCodeP1, rateP1, sessionsP1,
                   handledP1, allowedP1, wsIdle, p4Vars, p0Vars>>

\* the clock passes the inactivity timeout, MaxTicks times
Idle ==
    /\ impl \in P13
    /\ now \div (inactiveTimeout + 1) < MaxTicks
    /\ now' = now + inactiveTimeout + 1
    /\ event' = Event("tick", Null)
    /\ outbox' = <<>>
    /\ allowedP1' = Recent(allowedP1, now')
    /\ UNCHANGED <<impl, sioVars, roomsP1, roomCodeP1, rateP1, sessionsP1,
                   handledP1, wsIdle, p4Vars, p0Vars>>

\* part_001 and part_003 with the sweep of the inactive rooms
SpecP13Cleanup ==
    (InitP1 \/ InitP3) /\ [][NextP1 \/ cleanupInactiveRooms \/ Idle]_vars

maxMessageLength == 500
Texts == {<<"h", "i">>, <<>>, <<"<", "b", ">">>}

\* validateMessage(text), lines 132-155
validateMessage(text) ==
    IF text = <<>> THEN [isValid |-> FALSE, error |-> "Mesaj gereklidir"]
    ELSE IF Len(sanitizeHtml(text)) = 0
    THEN [isValid |-> FALSE, error |-> "Mesaj bos olamaz"]
    ELSE IF Len(sanitizeHtml(text)) > maxMessageLength
    THEN [isValid |-> FALSE, error |-> "Mesaj 500 karakteri gecemez"]
    ELSE [isValid |-> TRUE, sanitizedText |-> sanitizeHtml(text)]

\* the place of socket s in room.users, 0 if it has none (Array.find)
UserIndex(room, s) ==
    IF \E i \in DOMAIN room.users : room.users[i].id = s
    THEN CHOOSE i \in DOMAIN room.users :
            /\ room.users[i].id = s
            /\ \A j \in 1..(i - 1) : room.users[j].id # s
    ELSE 0

\* socket.on('send-message'), part_001 lines 417-451
SendMessage1(s, text) ==
    /\ impl = "part001"
    /\ connected[s]
    /\ Budget(s)
    /\ event' = Event("send-message", s)
    /\ handledP1' = handledP1 + 1
    /\ UNCHANGED <<impl, now, sioVars, roomCodeP1, wsIdle, p4Vars, p0Vars>>
    /\ LET lim == checkSocketRateLimit(rateP1, s, now)
           messageValidation == validateMessage(text)
           roomCode == roomCodeP1[s]
       IN  /\ rateP1' = lim.rate
           /\ allowedP1' = Allowed(allowedP1, s, lim.ok, now)
           /\ IF ~lim.ok
              THEN /\ outbox' = RateLimited(s)
                   /\ UNCHANGED <<roomsP1, sessionsP1>>
              ELSE /\ sessionsP1' = Touch(sessionsP1, s)
                   /\ IF ~messageValidation.isValid
                      THEN /\ outbox' = Error(s, messageValidation.error)
                           /\ UNCHANGED roomsP1
                      ELSE IF /\ roomCode # <<>>
                              /\ roomCode \in DOMAIN roomsP1
                              /\ UserIndex(roomsP1[roomCode], s) # 0
                      THEN /\ roomsP1' = [roomsP1 EXCEPT
                                             ![roomCode].totalMessages = @ + 1,
                                             ![roomCode].lastActivity = now]
                           /\ outbox' = emitTo(sio, roomCode, s,
                                  [type |-> "receive-message", from |-> s,
                                   message |-> messageValidation.sanitizedText])
                      ELSE /\ outbox' = <<>>
                           /\ UNCHANGED roomsP1

WebrtcKinds == {"webrtc-offer", "webrtc-answer", "webrtc-ice-candidate"}

\* socket.on('webrtc-offer' / 'webrtc-answer' / 'webrtc-ice-candidate'),
\* lines 454-479: socket.to(data.targetSocketId), the room every socket is in
\* under its own id
Webrtc1(s, kind, targetSocketId) ==
    /\ impl = "part001"
    /\ connected[s]
    /\ event' = Event(kind, s)
    /\ outbox' = IF targetSocketId # s /\ connected[targetSocketId]
                 THEN <<Send(targetSocketId, [type |-> kind, fromSocketId |-> s])>>
                 ELSE <<>>
    /\ UNCHANGED <<impl, now, sioVars, p1Vars, wsIdle, p4Vars, p0Vars>>

RoomEventKinds == {"media-status-update", "typing-start", "typing-stop",
                   "screen-share-started", "screen-share-stopped"}

\* what the handler of a room event emits
Relayed(kind) ==
    CASE kind = "media-status-update" -> "user-media-updated"
      [] kind = "typing-start" -> "user-typing-start"
      [] kind = "typing-stop" -> "user-typing-stop"
      [] OTHER -> "user-screen-sharing"

\* socket.on('media-status-update' / 'typing-start' / 'typing-stop' /
\* 'screen-share-started' / 'screen-share-stopped'), lines 482-503, 526-545
RoomEvent1(s, kind) ==
    /\ impl = "part001"
    /\ connected[s]
    /\ event' = Event(kind, s)
    /\ outbox' = IF roomCodeP1[s] # <<>>
                 THEN emitTo(sio, roomCodeP1[s], s,
                             [type |-> Relayed(kind), socketId |-> s])
                 ELSE <<>>
    /\ UNCHANGED <<impl, now, sioVars, p1Vars, wsIdle, p4Vars, p0Vars>>

\* socket.on('audio-state-change'), lines 506-523
AudioStateChange1(s, isMuted) ==
    /\ impl = "part001"
    /\ connected[s]
    /\ event' = Event("audio-state-change", s)
    /\ UNCHANGED <<impl, now, sioVars, roomCodeP1, rateP1, sessionsP1, handledP1,
                   allowedP1, wsIdle, p4Vars, p0Vars>>
    /\ LET roomCode == roomCodeP1[s]
           found == /\ roomCode \in DOMAIN roomsP1
                    /\ UserIndex(roomsP1[roomCode], s) # 0
           rooms2 == IF found
                     THEN [roomsP1 EXCEPT
                              ![roomCode].users[UserIndex(roomsP1[roomCode], s)]
                                  .isMuted = isMuted]
                     ELSE roomsP1
       IN  IF roomCode = <<>>
           THEN outbox' = <<>> /\ UNCHANGED roomsP1
           ELSE /\ roomsP1' = rooms2
                /\ outbox' =
                     (IF found
                      THEN emitTo(sio, roomCode, Null,
                                  [type |-> "update-participants",
                                   participants |-> rooms2[roomCode].users])
                      ELSE <<>>)
                     \o emitTo(sio, roomCode, s,
                               [type |-> "audio-state-changed", userId |-> s,
                                isMuted |-> isMuted])

\* the events of a socket besides create-room and join-room
EventsP1 ==
    \/ \E s \in Conns, text \in Texts : SendMessage1(s, text)
    \/ \E s \in Conns, kind \in WebrtcKinds, targetSocketId \in 1..(NumConns + 1) :
          Webrtc1(s, kind, targetSocketId)
    \/ \E s \in Conns, kind \in RoomEventKinds : RoomEvent1(s, kind)
    \/ \E s \in Conns, isMuted \in BOOLEAN : AudioStateChange1(s, isMuted)

\* part_001 with all the events of a socket
SpecP1Events == InitP1 /\ [][NextP1 \/ EventsP1]_vars

\* the setInterval of lines 606-613: the entries whose window has run out go
SweepRateLimits ==
    /\ impl \in P13
    /\ rateP1' = [s \in {x \in DOMAIN rateP1 :
                             ~(now - rateP1[x].firstEvent > windowMs)} |->
                     rateP1[s]]
    /\ event' = Event("sweep", Null)
    /\ outbox' = <<>>
    /\ UNCHANGED <<impl, now, sioVars, roomsP1, roomCodeP1, sessionsP1,
                   handledP1, allowedP1, wsIdle, p4Vars, p0Vars>>

\* the clock moves on by a millisecond, MaxTicks times from the start or from
\* the end of a window
Advance ==
    /\ impl \in P13
    /\ now % windowMs < MaxTicks
    /\ now' = now + 1
    /\ event' = Event("tick", Null)
    /\ outbox' = <<>>
    /\ allowedP1' = Recent(allowedP1, now')
    /\ UNCHANGED <<impl, sioVars, roomsP1, roomCodeP1, rateP1, sessionsP1,
                   handledP1, wsIdle, p4Vars, p0Vars>>

\* part_001 at the last millisecond of socket 1's window: the window began
\* with an event at time 0, and the socket has sent all but one of its other
\* events of the window just now
InitP1Late ==
    /\ impl = "part001"
    /\ now = windowMs
    /\ outbox = <<>>
    /\ event = Event("init", Null)
    /\ IdleWs /\ IdleP4 /\ IdleP0
    /\ connected = [s \in P1Conns |-> s <= NumConns]
    /\ sio = [s \in P1Conns |-> {}]
    /\ roomsP1 = <<>>
    /\ roomCodeP1 = [s \in P1Conns |-> <<>>]
    /\ rateP1 = With(<<>>, 1, [count |-> maxEventsPerMinute - 1, firstEvent |-> 0])
    /\ sessionsP1 = [s \in 1..NumConns |-> [lastActivity |-> now]]
    /\ handledP1 = 0
    /\ allowedP1 = Recent([s \in P1Conns |->
                              IF s = 1
                              THEN <<0>> \o [i \in 1..(maxEventsPerMinute - 2) |-> now]
                              ELSE <<>>], now)

\* part_001 with its clock and its sweep of the rate-limit map
SpecP1Sliding ==
    (InitP1 \/ InitP1Late) /\ [][NextP1 \/ Advance \/ SweepRateLimits]_vars

\* ============================================================ combinations
\* the two ws servers
SpecWs == (InitServer \/ InitP2) /\ [][NextServer \/ NextP2]_vars

\* the variants that delete a room when its last peer leaves
SpecImmediate ==
    (InitServer \/ InitP2 \/ InitP4) /\ [][NextServer \/ NextP2 \/ NextP4]_vars

\* the variants that move the host role when the host leaves
SpecHost ==
    (InitServer \/ InitP2 \/ InitP0) /\ [][NextServer \/ NextP2 \/ NextP0]_vars

\* the variants with a room capacity
SpecCapacity ==
    (InitServer \/ InitP2 \/ InitP1) /\ [][NextServer \/ NextP2 \/ NextP1]_vars

\* ---- server.js, handleChat, lines 265-280
\* msg.text: missing, blank, or a word
ChatTexts == {<<>>, <<" ">>, <<"h", "i">>}

\* text.trim().substring(0, 1000)
cleanText(text) ==
    LET trimmed == trim(text)
    IN  SubSeq(trimmed, 1, IF Len(trimmed) < 1000 THEN Len(trimmed) ELSE 1000)

\* room.clients.get(clientId) is there
HasClient(rms, roomCode, id) ==
    \E i \in DOMAIN rms[roomCode].clients : rms[roomCode].clients[i].id = id

handleChat(c, roomCode, text) ==
    /\ impl = "server"
    /\ readyState[c] = "OPEN"
    /\ event' = Event("chat", c)
    /\ UNCHANGED <<impl, now, readyState, serverVars, p2Vars, sioVars, p4Vars,
                   p0Vars, p1Vars>>
    /\ outbox' = IF \/ roomCode = NoCode
                    \/ text = <<>>
                    \/ roomCode \notin DOMAIN rooms
                 THEN <<>>
                 ELSE IF ~HasClient(rooms, roomCode, clientId[c]) THEN <<>>
                 ELSE IF cleanText(text) = <<>> THEN <<>>
                 ELSE broadcastToRoom(rooms, roomCode,
                          [type |-> "chat", senderId |-> clientId[c],
                           text |-> cleanText(text)], Null)

ChatServer ==
    \E c \in ControlConns, roomCode \in Rooms \cup {NoCode}, text \in ChatTexts :
        handleChat(c, roomCode, text)

\* server.js with its relay and chat events
SpecServerChat == InitServer /\ [][NextServer \/ RelayServer \/ ChatServer]_vars

\* ================================================================== claims
Sent(type) == \E i \in DOMAIN outbox : outbox[i].msg.type = type

\* C1: in src/server.js, every room of the registry has a hostId that is a key
\* of its clients map, after any sequence of join, control and close events.
C1_HostIsClient ==
    impl = "server" =>
        \A r \in DOMAIN rooms : rooms[r].hostId \in ClientIds(rooms[r])

\* the host's connection closed, the room survived and got another host
C1_Witness ==
    /\ impl = "server"
    /\ event.type = "close"
    /\ Sent("host-changed")
    /\ \E r \in DOMAIN rooms : rooms[r].hostId \in ClientIds(rooms[r])

\* the entries of every room of a ws server, as <<room, index, connection>>
WsEntries ==
    IF impl = "server"
    THEN UNION {{<<r, i, rooms[r].clients[i].ws>> : i \in DOMAIN rooms[r].clients} :
                   r \in DOMAIN rooms}
    ELSE UNION {{<<r, i, roomsP2[r].peers[i].ws>> : i \in DOMAIN roomsP2[r].peers} :
                   r \in DOMAIN roomsP2}

\* C3: in src/server.js and part_002, every peer entry of every room belongs
\* to exactly one connection that is still open: no closed connection is
\* referenced by a room and no connection owns two entries.
C3_PeersAreLiveConnections ==
    impl \in {"server", "part002"} =>
        /\ \A e \in WsEntries : readyState[e[3]] = "OPEN"
        /\ \A e, f \in WsEntries : e[3] = f[3] => e = f

\* C5: in src/server.js, part_002 and part_004 no room with zero peers is in
\* the registry after a handler has run.
C5_NoEmptyRoom ==
    /\ impl = "server" => \A r \in DOMAIN rooms : Len(rooms[r].clients) > 0
    /\ impl = "part002" => \A r \in DOMAIN roomsP2 : Len(roomsP2[r].peers) > 0
    /\ impl = "part004" => \A r \in DOMAIN roomsP4 : Len(roomsP4[r].peers) > 0

\* the last member of a room closed and the room left the registry
C5_Witness ==
    /\ impl = "server"
    /\ event.type = "close"
    /\ currentRoom[event.conn] # NullRoom
    /\ currentRoom[event.conn] \notin DOMAIN rooms

\* C2: in part_001 and part_003 every room whose users list is not empty has
\* exactly one user with isHost true.
C2_ExactlyOneHost ==
    impl \in P13 =>
        \A c \in DOMAIN roomsP1 :
            Len(roomsP1[c].users) > 0 =>
                Cardinality({i \in DOMAIN roomsP1[c].users :
                                roomsP1[c].users[i].isHost}) = 1

\* the member of a room that joined first: ids of src/server.js carry the
\* time of the join
EarliestClient(room) ==
    CHOOSE id \in ClientIds(room) : \A other \in ClientIds(room) : id <= other

EarliestPeer(roomObj) ==
    LET i == CHOOSE i \in DOMAIN roomObj.peers :
                 \A j \in DOMAIN roomObj.peers : roomObj.peers[i].at <= roomObj.peers[j].at
    IN  roomObj.peers[i].ws

EarliestParticipant(room) ==
    LET i == CHOOSE i \in DOMAIN room.participants :
                 \A j \in DOMAIN room.participants :
                     room.participants[i].at <= room.participants[j].at
    IN  room.participants[i].id

\* C4: when a handler takes the host (admin) out of a room that keeps
\* members, the room has, at the end of that handler, the remaining member
\* that joined first as its host (src/server.js, part_002) or admin (part_000).
C4_EarliestBecomesHost ==
    [][/\ impl = "server" =>
            \A r \in DOMAIN rooms \cap DOMAIN rooms' :
                (/\ rooms[r].hostId \in ClientIds(rooms[r])
                 /\ rooms[r].hostId \notin ClientIds(rooms'[r]))
                => rooms'[r].hostId = EarliestClient(rooms'[r])
       /\ impl = "part002" =>
            \A r \in DOMAIN roomsP2 \cap DOMAIN roomsP2' :
                (/\ roomsP2[r].hostId \in PeerIds(roomsP2[r])
                 /\ roomsP2[r].hostId \notin PeerIds(roomsP2'[r]))
                => roomsP2'[r].hostId = EarliestPeer(roomsP2'[r])
       /\ impl = "part000" =>
            \A r \in DOMAIN roomsP0 \cap DOMAIN roomsP0' :
                (/\ roomsP0[r].admin \in ParticipantIds(roomsP0[r])
                 /\ roomsP0[r].admin \notin ParticipantIds(roomsP0'[r]))
                => roomsP0'[r].admin = EarliestParticipant(roomsP0'[r])
      ]_vars

\* the admin of a part_000 room left it and two or more members stayed
C4_Witness ==
    /\ impl = "part000"
    /\ event.type \in {"leave", "close"}
    /\ Sent("admin-assigned")
    /\ \E r \in DOMAIN roomsP0 :
          /\ Len(roomsP0[r].participants) >= 2
          /\ roomsP0[r].admin = EarliestParticipant(roomsP0[r])

\* the same in src/server.js and in part_002
C4_WitnessServer ==
    /\ impl = "server"
    /\ event.type = "close"
    /\ Sent("host-changed")
    /\ \E r \in DOMAIN rooms : Len(rooms[r].clients) >= 2

C4_WitnessP2 ==
    /\ impl = "part002"
    /\ event.type = "close"
    /\ Sent("host-changed")
    /\ \E r \in DOMAIN roomsP2 : Len(roomsP2[r].peers) >= 2

\* C6: a room never holds more peers than the capacity: MAX_ROOM_SIZE in
\* src/server.js, MAX_PER_ROOM in part_002, room.settings.maxUsers in part_001.
C6_Capacity ==
    /\ impl = "server" =>
          \A r \in DOMAIN rooms : Len(rooms[r].clients) <= MAX_ROOM_SIZE
    /\ impl = "part002" =>
          \A r \in DOMAIN roomsP2 : Len(roomsP2[r].peers) <= MAX_PER_ROOM
    /\ impl = "part001" =>
          \A c \in DOMAIN roomsP1 : Len(roomsP1[c].users) <= roomsP1[c].maxUsers

\* a join-room of part_001 met a room with maxUsers users and was turned away
C6_Witness ==
    /\ impl = "part001"
    /\ event.type = "join"
    /\ outbox = Error(event.conn, "Oda dolu! Maksimum kullanici sayisina ulasildi.")
    /\ \E c \in DOMAIN roomsP1 : Len(roomsP1[c].users) = roomsP1[c].maxUsers

\* the same in src/server.js and in part_002
C6_WitnessServer ==
    /\ impl = "server"
    /\ Sent("full")
    /\ \E r \in DOMAIN rooms : Len(rooms[r].clients) = MAX_ROOM_SIZE

C6_WitnessP2 ==
    /\ impl = "part002"
    /\ Sent("full")
    /\ \E r \in DOMAIN roomsP2 : Len(roomsP2[r].peers) = MAX_PER_ROOM
\* C7 (as stated): in src/server.js a join to a room that holds
\* MAX_ROOM_SIZE peers sends one 'full' message with the capacity to the
\* joiner, nothing to anyone else, and leaves the room as it was.
C7_FullJoinRejected ==
    [][\A c \in Conns, r \in Rooms :
          (/\ impl = "server"
           /\ r \in DOMAIN rooms
           /\ Len(rooms[r].clients) >= MAX_ROOM_SIZE
           /\ handleJoin(c, r))
          => /\ outbox' = <<Send(c, [type |-> "full", max |-> MAX_ROOM_SIZE])>>
             /\ rooms' = rooms
      ]_vars

\* C7 (amended): the same for a room that is not locked; a locked room that
\* holds MAX_ROOM_SIZE peers answers 'locked' to the joiner and is left as
\* it was.
C7_UnlockedFullJoinRejected ==
    [][\A c \in Conns, r \in Rooms :
          (/\ impl = "server"
           /\ r \in DOMAIN rooms
           /\ Len(rooms[r].clients) >= MAX_ROOM_SIZE
           /\ handleJoin(c, r))
          => /\ outbox' = IF rooms[r].locked
                          THEN <<Send(c, [type |-> "locked"])>>
                          ELSE <<Send(c, [type |-> "full", max |-> MAX_ROOM_SIZE])>>
             /\ rooms' = rooms
      ]_vars

\* a join met an unlocked room of MAX_ROOM_SIZE peers and got 'full'
C7_Witness ==
    /\ impl = "server"
    /\ event.type = "join"
    /\ outbox = <<Send(event.conn, [type |-> "full", max |-> MAX_ROOM_SIZE])>>
    /\ currentRoom[event.conn] \in DOMAIN rooms
    /\ Len(rooms[currentRoom[event.conn]].clients) = MAX_ROOM_SIZE
    /\ ~rooms[currentRoom[event.conn]].locked

\* C8: in src/server.js and part_002 a join to a locked room with at least
\* one peer sends 'locked' to the joiner and nothing else, and the room's
\* peers, host and lock stay as they were.
C8_LockedJoinRejected ==
    [][\A c \in Conns, r \in Rooms :
          /\ (/\ impl = "server"
               /\ r \in DOMAIN rooms
               /\ rooms[r].locked /\ Len(rooms[r].clients) > 0
               /\ handleJoin(c, r))
              => /\ outbox' = <<Send(c, [type |-> "locked"])>>
                 /\ rooms' = rooms
          /\ (/\ impl = "part002"
               /\ r \in DOMAIN roomsP2
               /\ roomsP2[r].locked /\ Len(roomsP2[r].peers) > 0
               /\ Join2(c, r))
              => /\ outbox' = <<Send(c, [type |-> "locked"])>>
                 /\ roomsP2' = roomsP2
      ]_vars

\* a join met a locked room of src/server.js with two or more peers
C8_Witness ==
    /\ impl = "server"
    /\ event.type = "join"
    /\ outbox = <<Send(event.conn, [type |-> "locked"])>>
    /\ currentRoom[event.conn] \in DOMAIN rooms
    /\ rooms[currentRoom[event.conn]].locked
    /\ Len(rooms[currentRoom[event.conn]].clients) >= 2

\* the same in part_002
C8_WitnessP2 ==
    /\ impl = "part002"
    /\ event.type = "join"
    /\ outbox = <<Send(event.conn, [type |-> "locked"])>>
    /\ \E r \in DOMAIN roomsP2 : roomsP2[r].locked /\ Len(roomsP2[r].peers) >= 2

\* the connection has an entry in some room of src/server.js
IsMember(c) ==
    \E r \in DOMAIN rooms : \E i \in DOMAIN rooms[r].clients : rooms[r].clients[i].ws = c

\* C9: in src/server.js the close of a connection that is a member of no room
\* delivers no message and changes no room.
C9_CloseOfNonMemberIsNoOp ==
    [][\A c \in Conns :
          (impl = "server" /\ ~IsMember(c) /\ OnClose(c))
          => outbox' = <<>> /\ rooms' = rooms
      ]_vars
\* the messages of one kind that a handler of part_000 sent to socket x:
\* 'left' system messages and user-left events, about room r or about any room
LeftLogs(out, x, r) ==
    Cardinality({i \in DOMAIN out :
        /\ out[i].to = x /\ out[i].msg.type = "new-message"
        /\ out[i].msg.log = "left" /\ out[i].msg.room = r})

UserLefts(out, x, r) ==
    Cardinality({i \in DOMAIN out :
        out[i].to = x /\ out[i].msg.type = "user-left" /\ out[i].msg.room = r})

AdminAssigned(out, r) ==
    Cardinality({i \in DOMAIN out :
        out[i].msg.type = "admin-assigned" /\ out[i].msg.room = r})

AllLeftLogs(out, x) ==
    Cardinality({i \in DOMAIN out :
        /\ out[i].to = x /\ out[i].msg.type = "new-message"
        /\ out[i].msg.log = "left"})

AllUserLefts(out, x) ==
    Cardinality({i \in DOMAIN out :
        out[i].to = x /\ out[i].msg.type = "user-left"})

AllAdminAssigned(out) ==
    Cardinality({i \in DOMAIN out : out[i].msg.type = "admin-assigned"})

IsParticipant(s) ==
    \E r \in DOMAIN roomsP0 : s \in ParticipantIds(roomsP0[r])

\* C10: in part_000 (join-room variant) a leave-room of a socket
\* that is in a room sends one 'left' system message and one user-left (the
\* leaving socket, still in its rooms, gets exactly one of each, no socket
\* gets more) and reassigns the admin at most once; the disconnect that
\* follows changes no room and emits nothing.
C10_OneLeaveSet ==
    [][\A s \in LeaveConns :
          /\ (impl = "part000" /\ IsParticipant(s) /\ LeaveRoom0(s))
              => /\ AllLeftLogs(outbox', s) = 1
                 /\ AllUserLefts(outbox', s) = 1
                 /\ \A x \in P0Conns : /\ AllLeftLogs(outbox', x) <= 1
                                        /\ AllUserLefts(outbox', x) <= 1
                 /\ AllAdminAssigned(outbox') <= 1
          /\ (impl = "part000" /\ event = Event("leave", s) /\ Disconnect0(s))
              => /\ outbox' = <<>>
                 /\ roomsP0' = roomsP0
                 /\ orderP0' = orderP0
      ]_vars

\* what part_000 does guarantee: a leave-room sends, for each room the socket
\* is a participant of, one 'left' system message and one user-left to every
\* socket in that room (the leaving one too), reassigns that room's admin at
\* most once, sends nothing about other rooms and leaves the socket in no
\* room; the disconnect that follows changes no room and emits nothing.
LeaveSetPerRoom ==
    [][\A s \in LeaveConns :
          /\ (impl = "part000" /\ LeaveRoom0(s))
              => /\ \A r \in Rooms, x \in P0Conns :
                      LET hit == /\ r \in DOMAIN roomsP0
                                 /\ s \in ParticipantIds(roomsP0[r])
                                 /\ r \in sio[x]
                      IN  /\ LeftLogs(outbox', x, r) = IF hit THEN 1 ELSE 0
                          /\ UserLefts(outbox', x, r) = IF hit THEN 1 ELSE 0
                 /\ \A r \in Rooms :
                      AdminAssigned(outbox', r) <=
                          IF r \in DOMAIN roomsP0 /\ roomsP0[r].admin = s
                          THEN 1 ELSE 0
                 /\ \A r \in DOMAIN roomsP0' : s \notin ParticipantIds(roomsP0'[r])
          /\ (impl = "part000" /\ event = Event("leave", s) /\ Disconnect0(s))
              => /\ outbox' = <<>>
                 /\ roomsP0' = roomsP0
                 /\ orderP0' = orderP0
      ]_vars

\* a socket left its room by leave-room, then disconnected: nothing was sent
\* and the rooms of the others are still there
LeaveThenDisconnect ==
    /\ impl = "part000"
    /\ event.type = "close"
    /\ event.afterLeave
    /\ outbox = <<>>
    /\ roomsP0 # <<>>

\* connection c holds, under its current clientId, an entry of room r
InRoom(c, r) ==
    /\ r \in DOMAIN rooms
    /\ \E i \in DOMAIN rooms[r].clients :
          rooms[r].clients[i].ws = c /\ rooms[r].clients[i].id = clientId[c]

\* C11: in src/server.js a signal is delivered only if its target is a member
\* of the room the sending connection is a member of; any other signal sends
\* nothing.
C11_SignalWithinSendersRoom ==
    [][\A c \in ControlConns, r \in Rooms \cup {NoCode}, to \in TargetIds,
          data \in Payloads \cup {NoData} :
          (handleSignal(c, r, to, data) /\ outbox' # <<>>)
              => InRoom(c, r) /\ to \in ClientIds(rooms[r])
      ]_vars

\* the connections of the entries of room r (src/server.js) with client id `id`
ConnsOfClient(r, id) ==
    IF r \notin DOMAIN rooms THEN {}
    ELSE {rooms[r].clients[i].ws :
             i \in {j \in DOMAIN rooms[r].clients : rooms[r].clients[j].id = id}}

\* C12: in src/server.js, part_002 and part_004 one signal / offer / answer /
\* ice-candidate event sends at most one message, to the connection of the
\* addressed peer, with `from` the peer id the server gave the sender; no
\* room changes.
C12_SignalIsUnicastFromSender ==
    [][/\ impl = "server" =>
            \A c \in ControlConns, r \in Rooms \cup {NoCode}, to \in TargetIds,
               data \in Payloads \cup {NoData} :
               handleSignal(c, r, to, data) =>
                   /\ Len(outbox') <= 1
                   /\ \A i \in DOMAIN outbox' :
                         /\ outbox'[i].to \in ConnsOfClient(r, to)
                         /\ outbox'[i].msg.from = clientId[c]
                         /\ clientId[c] # Null
                   /\ rooms' = rooms
       /\ \A c \in ControlConns, targetId \in TargetIds2,
             data \in Payloads \cup {NoData} :
             Signal2(c, targetId, data) =>
                 /\ Len(outbox') <= 1
                 /\ \A i \in DOMAIN outbox' :
                       outbox'[i].to = targetId /\ outbox'[i].msg.from = c
                 /\ roomsP2' = roomsP2
       /\ \A s \in Conns, kind \in SignalKinds, to \in Conns \cup {Null} :
             Signal4(s, kind, to) =>
                 /\ Len(outbox') <= 1
                 /\ \A i \in DOMAIN outbox' :
                       /\ outbox'[i].to = to
                       /\ outbox'[i].msg.from = generatePeerId(s)
                 /\ roomsP4' = roomsP4 /\ peers' = peers
      ]_vars

\* the rooms whose hostId is the current peer id of connection c
HostedBy(c) == {r \in DOMAIN rooms : rooms[r].hostId = clientId[c]}
HostedBy2(c) == {r \in DOMAIN roomsP2 : roomsP2[r].hostId = c}

\* C13: in src/server.js and part_002 a control event changes a room or sends
\* something only if the sending connection's peer id is the hostId of that
\* room: a control event of anyone else changes nothing and sends nothing, a
\* locked flag changes only in a control event of the room's host, and a
\* mute-mic directive is sent only in a control event of a host.
C13_OnlyHostControls ==
    [][/\ (impl = "server" /\ event'.type = "control") =>
            /\ DOMAIN rooms' = DOMAIN rooms
            /\ \A r \in DOMAIN rooms \ HostedBy(event'.conn) : rooms'[r] = rooms[r]
            /\ HostedBy(event'.conn) = {} => outbox' = <<>>
       /\ (impl = "part002" /\ event'.type = "control") =>
            /\ DOMAIN roomsP2' = DOMAIN roomsP2
            /\ \A r \in DOMAIN roomsP2 \ HostedBy2(event'.conn) :
                  roomsP2'[r] = roomsP2[r]
            /\ HostedBy2(event'.conn) = {} => outbox' = <<>>
       /\ \A r \in DOMAIN rooms \cap DOMAIN rooms' :
             rooms'[r].locked # rooms[r].locked =>
                 event'.type = "control" /\ r \in HostedBy(event'.conn)
       /\ \A r \in DOMAIN roomsP2 \cap DOMAIN roomsP2' :
             roomsP2'[r].locked # roomsP2[r].locked =>
                 event'.type = "control" /\ r \in HostedBy2(event'.conn)
       /\ \A i \in DOMAIN outbox' :
             (impl \in {"server", "part002"} /\ outbox'[i].msg.type = "control") =>
                 /\ event'.type = "control"
                 /\ IF impl = "server" THEN HostedBy(event'.conn) # {}
                    ELSE HostedBy2(event'.conn) # {}
      ]_vars

\* a member that is not the host sent a control event to a room of two or
\* more, and nothing went out
C13_Witness ==
    /\ impl = "server"
    /\ event.type = "control"
    /\ outbox = <<>>
    /\ \E r \in DOMAIN rooms :
          /\ InRoom(event.conn, r)
          /\ rooms[r].hostId # clientId[event.conn]
          /\ Len(rooms[r].clients) >= 2

C13_WitnessP2 ==
    /\ impl = "part002"
    /\ event.type = "control"
    /\ outbox = <<>>
    /\ \E r \in DOMAIN roomsP2 :
          /\ event.conn \in PeerIds(roomsP2[r])
          /\ roomsP2[r].hostId # event.conn
          /\ Len(roomsP2[r].peers) >= 2

\* the connections that hold an entry of room r, and the one of its host entry
MemberConns(r) == {rooms[r].clients[i].ws : i \in DOMAIN rooms[r].clients}
HostConns(r) == ConnsOfClient(r, rooms[r].hostId)

\* C14: in src/server.js, when the connection of a room's host closes while
\* the room has a member on another connection, the room gets a new host on
\* another connection and every remaining open member receives host-changed
\* with the new hostId; a lock-room of the room's host sets the lock state, and
\* a lock state never changes in an event of a closed connection.
C14_HostChangedOnHostClose ==
    [][impl = "server" =>
         /\ \A r \in DOMAIN rooms :
               ( /\ event'.type = "close"
                 /\ event'.conn \in HostConns(r)
                 /\ MemberConns(r) \ {event'.conn} # {} )
               => /\ r \in DOMAIN rooms'
                  /\ rooms'[r].hostId # rooms[r].hostId
                  /\ \A i \in DOMAIN rooms'[r].clients :
                        LET cl == rooms'[r].clients[i]
                        IN  readyState'[cl.ws] = "OPEN" =>
                              \E k \in DOMAIN outbox' :
                                 outbox'[k] = Send(cl.ws,
                                     [type |-> "host-changed",
                                      hostId |-> rooms'[r].hostId])
         /\ \A c \in ControlConns, r \in Rooms, value \in BOOLEAN :
               (handleControl(c, r, "lock-room", value, Null)
                   /\ r \in HostedBy(c))
               => rooms'[r].locked = value
         /\ \A r \in DOMAIN rooms \cap DOMAIN rooms' :
               rooms'[r].locked # rooms[r].locked
                   => readyState[event'.conn] = "OPEN"
      ]_vars

\* C15: in src/server.js, when the last connection that holds entries of a
\* room closes, the room leaves the registry; a join to a room code that is
\* not in the registry creates a room with locked = FALSE whose host is the
\* joiner.
C15_LastCloseDeletesRoom ==
    [][impl = "server" =>
         /\ \A r \in DOMAIN rooms :
               (event'.type = "close" /\ MemberConns(r) = {event'.conn})
                   => r \notin DOMAIN rooms'
         /\ \A c \in Conns, r \in Rooms :
               (handleJoin(c, r) /\ r \notin DOMAIN rooms)
                   => /\ r \in DOMAIN rooms'
                      /\ rooms'[r].locked = FALSE
                      /\ rooms'[r].hostId = clientId'[c]
                      /\ ClientIds(rooms'[r]) = {clientId'[c]}
      ]_vars

\* the ids a roster names
RosterIds(roster) == {roster[i].id : i \in DOMAIN roster}

\* C16: in src/server.js and part_002 the 'joined' message of a successful
\* join carries isHost = TRUE exactly when the room had no peer before the
\* join, the room's hostId and locked flag, and a roster that names, once
\* each, exactly the peers the room held before the join on connections other
\* than the joiner's.
C16_JoinedAck ==
    [][/\ ( /\ impl = "server" /\ event'.type = "join"
            /\ outbox' # <<>> /\ outbox'[1].msg.type = "joined" ) =>
            LET c == event'.conn
                r == currentRoom'[c]
                m == outbox'[1].msg
                before == IF r \in DOMAIN rooms THEN rooms[r].clients ELSE <<>>
                others == {before[i].id :
                              i \in {j \in DOMAIN before : before[j].ws # c}}
            IN  /\ outbox'[1].to = c
                /\ m.isHost = (before = <<>>)
                /\ m.hostId = rooms'[r].hostId
                /\ m.locked = rooms'[r].locked
                /\ RosterIds(m.peers) = others
                /\ Len(m.peers) = Cardinality(others)
       /\ ( /\ impl = "part002" /\ event'.type = "join"
            /\ outbox' # <<>> /\ outbox'[1].msg.type = "joined" ) =>
            LET c == event'.conn
                r == wsRoom'[c]
                m == outbox'[1].msg
                before == IF r \in DOMAIN roomsP2 THEN roomsP2[r].peers ELSE <<>>
                others == {before[i].ws : i \in DOMAIN before} \ {c}
            IN  /\ outbox'[1].to = c
                /\ m.isHost = (before = <<>>)
                /\ m.hostId = roomsP2'[r].hostId
                /\ m.locked = roomsP2'[r].locked
                /\ RosterIds(m.peers) = others
                /\ Len(m.peers) = Cardinality(others)
      ]_vars

\* the buffer of recent messages of room r in part_004 and in the joinRoom
\* server of part_000
History(r) ==
    IF impl = "part004"
    THEN IF r \in DOMAIN roomsP4 THEN roomsP4[r].messages ELSE <<>>
    ELSE getRoomHistory(r)

\* the time a message of either variant carries
SentAt(m) == IF impl = "part004" THEN m.timestamp ELSE m.time

\* C17: in part_004 and the joinRoom server of part_000 a room's buffer of
\* recent messages never holds more than 100 entries; a chat event appends
\* its message as the last entry, and when the buffer was full the oldest
\* entry goes and the others keep their order.
C17_BoundedHistory ==
    [][\A r \in Rooms :
          /\ Len(History(r)) <= HistoryLimit
          /\ Len(History(r)') <= HistoryLimit
          /\ (event'.type = "chat" /\ History(r)' # History(r)) =>
                LET old == History(r)
                    new == History(r)'
                IN  /\ SentAt(new[Len(new)]) = now
                    /\ SubSeq(new, 1, Len(new) - 1) =
                          IF Len(old) = HistoryLimit THEN Tail(old) ELSE old
      ]_vars

\* a chat message went into a full buffer of part_004: the buffer holds 100
\* entries, the oldest of the start is gone, the new one is last
C17_Witness ==
    /\ impl = "part004"
    /\ event.type = "chat"
    /\ \E r \in DOMAIN roomsP4 :
          /\ Len(roomsP4[r].messages) = HistoryLimit
          /\ roomsP4[r].messages[1].timestamp = 2
          /\ roomsP4[r].messages[HistoryLimit].timestamp = now - 1

C17_WitnessChat ==
    /\ impl = "part000chat"
    /\ event.type = "chat"
    /\ \E r \in DOMAIN roomMessages :
          /\ Len(roomMessages[r]) = HistoryLimit
          /\ roomMessages[r][1].time = 2
          /\ roomMessages[r][HistoryLimit].time = now - 1


\* ------------------------------------------------------------------ C18
\* the event of a step went through checkSocketRateLimit
Limited == event'.type \in {"create", "join"}

\* C18: checkSocketRateLimit of part_001 and part_003 is the fixed-window
\* rule, per connection. For an event of a connection that has a window: if
\* the event comes more than windowMs after the window start, the count
\* becomes 1, the window starts at the time of the event and the event is
\* allowed; otherwise, if the count has reached maxEventsPerMinute, the event
\* is rejected and the entry stays as it was; otherwise the count grows by one,
\* the window start stays and the event is allowed. No entry of another
\* connection changes, and every stored count is between 1 and
\* maxEventsPerMinute.
C18_FixedWindowRule ==
    [][/\ \A s \in DOMAIN rateP1 : rateP1[s].count \in 1..maxEventsPerMinute
       /\ \A s \in DOMAIN rateP1' : rateP1'[s].count \in 1..maxEventsPerMinute
       /\ Limited =>
            LET s == event'.conn
            IN  /\ \A x \in DOMAIN rateP1 \ {s} :
                      x \in DOMAIN rateP1' /\ rateP1'[x] = rateP1[x]
                /\ s \in DOMAIN rateP1 =>
                     IF now - rateP1[s].firstEvent > windowMs
                     THEN /\ rateP1'[s] = [count |-> 1, firstEvent |-> now]
                          /\ outbox' # RateLimited(s)
                     ELSE IF rateP1[s].count >= maxEventsPerMinute
                     THEN /\ rateP1' = rateP1
                          /\ outbox' = RateLimited(s)
                          /\ UNCHANGED <<roomsP1, roomCodeP1, sessionsP1, sio>>
                     ELSE /\ rateP1'[s] = [count |-> rateP1[s].count + 1,
                                           firstEvent |-> rateP1[s].firstEvent]
                          /\ outbox' # RateLimited(s)
      ]_vars

\* an event was rejected: the count stands at the maximum inside the window
C18_Witness ==
    /\ impl \in P13
    /\ event.type \in {"create", "join"}
    /\ outbox = RateLimited(event.conn)
    /\ rateP1[event.conn].count = maxEventsPerMinute
    /\ now - rateP1[event.conn].firstEvent <= windowMs

\* the window of socket 1, one event short of the limit at the start, has
\* run out and its next event has started a new one
C18_WitnessReset ==
    /\ impl \in P13
    /\ event = Event("join", 1)
    /\ handledP1 = 1
    /\ now > windowMs
    /\ rateP1[1] = [count |-> 1, firstEvent |-> now]
    /\ outbox # RateLimited(1)

\* an event inside the window was counted and allowed
C18_WitnessIncrement ==
    /\ impl \in P13
    /\ event.type \in {"create", "join"}
    /\ event.conn \in DOMAIN rateP1
    /\ rateP1[event.conn].count = 2
    /\ outbox # RateLimited(event.conn)


\* ------------------------------------------------------------------ C19
\* socket s is in the users list of the room with this code
InUsers(s, code) ==
    /\ code \in DOMAIN roomsP1
    /\ \E i \in DOMAIN roomsP1[code].users : roomsP1[code].users[i].id = s

\* C19: in part_001 and part_003 a join-room of a socket that is already in
\* the users list of the room it names is rejected: the only message of the
\* step is one 'error' to that socket (no other member receives anything),
\* and no room changes (users list, totalUsers), nor does the socket's
\* membership of the socket.io rooms.
C19_DuplicateJoinRejected ==
    [][\A s \in Conns, code \in RoomCodes \cup {LowerCode}, userName \in Names :
          (InUsers(s, code) /\ JoinRoom1(s, code, userName))
              => /\ Len(outbox') = 1
                 /\ outbox'[1].to = s
                 /\ outbox'[1].msg.type = "error"
                 /\ roomsP1' = roomsP1
                 /\ roomCodeP1' = roomCodeP1
                 /\ sio' = sio
      ]_vars

\* a socket that is in the users list has asked again with valid data, the
\* room is not full, and it received the already-in-room error
C19_Witness ==
    /\ impl = "part001"
    /\ event.type = "join"
    /\ outbox = Error(event.conn, "Zaten bu odadasiniz!")
    /\ \E code \in DOMAIN roomsP1 :
          /\ InUsers(event.conn, code)
          /\ Len(roomsP1[code].users) < roomsP1[code].maxUsers


\* ------------------------------------------------------------------ C20
\* the connections a status or reaction of connection c would have to reach:
\* the open members of c's room other than c
OtherOpenMembers(c) ==
    IF impl = "server"
    THEN {x \in DOMAIN readyState : /\ x # c
                           /\ readyState[x] = "OPEN"
                           /\ \E r \in Rooms : InRoom(c, r) /\ InRoom(x, r)}
    ELSE IF findRoomOf(c) = NullRoom THEN {}
    ELSE {x \in PeerIds(roomsP2[findRoomOf(c)]) \ {c} : readyState[x] = "OPEN"}

\* C20: in src/server.js and part_002 a status or reaction event that is
\* relayed goes to every open member of the sender's room except the sender;
\* no message of the step goes to the sending connection.
C20_StatusExcludesSender ==
    [][(impl \in {"server", "part002"} /\ event'.type \in {"status", "reaction"})
          => /\ \A i \in DOMAIN outbox' : outbox'[i].to # event'.conn
             /\ outbox' # <<>> =>
                   \A x \in OtherOpenMembers(event'.conn) :
                       \E i \in DOMAIN outbox' : outbox'[i].to = x
      ]_vars


\* ------------------------------------------------------------------ C21
\* C21: in src/server.js and part_002 the messages of a successful join start
\* with the 'joined' acknowledgement to the joiner, and every 'peer-joined'
\* about the joiner comes after it; the roster of the acknowledgement is taken
\* from the room as the step found it plus the joiner (no other event has
\* changed the room in between), and the 'peer-joined' messages go to the
\* members the step leaves in the room.
C21_AckBeforePeerJoined ==
    [][(impl \in {"server", "part002"} /\ event'.type = "join") =>
          LET c == event'.conn
              joinedAt == {i \in DOMAIN outbox' : outbox'[i].msg.type = "joined"}
              peerJoinedAt ==
                  {i \in DOMAIN outbox' : outbox'[i].msg.type = "peer-joined"}
          IN  /\ peerJoinedAt # {} => joinedAt # {}
              /\ joinedAt # {} =>
                    /\ joinedAt = {1}
                    /\ outbox'[1].to = c
                    /\ \A i \in peerJoinedAt :
                          /\ i > 1
                          /\ outbox'[i].msg.id = outbox'[1].msg.id
                    /\ IF impl = "server"
                       THEN LET r == currentRoom'[c]
                                before == IF r \in DOMAIN rooms
                                          THEN ClientIds(rooms[r]) ELSE {}
                            IN  /\ RosterIds(outbox'[1].msg.peers) = before
                                /\ ClientIds(rooms'[r]) =
                                      before \cup {outbox'[1].msg.id}
                       ELSE LET r == wsRoom'[c]
                                before == IF r \in DOMAIN roomsP2
                                          THEN PeerIds(roomsP2[r]) ELSE {}
                            IN  /\ RosterIds(outbox'[1].msg.peers) = before
                                /\ PeerIds(roomsP2'[r]) = before \cup {c}
      ]_vars

\* a join into a room with members: the acknowledgement is the first message
\* of the step and a 'peer-joined' follows it (src/server.js)
C21_Witness ==
    /\ impl = "server"
    /\ event.type = "join"
    /\ Len(outbox) >= 2
    /\ outbox[1].msg.type = "joined"
    /\ outbox[1].to = event.conn
    /\ outbox[2].msg.type = "peer-joined"
    /\ outbox[2].to # event.conn

\* the same in part_002
C21_WitnessP2 ==
    /\ impl = "part002"
    /\ event.type = "join"
    /\ Len(outbox) >= 2
    /\ outbox[1].msg.type = "joined"
    /\ outbox[1].to = event.conn
    /\ outbox[2].msg.type = "peer-joined"
    /\ outbox[2].to # event.conn


\* ------------------------------------------------------------------ C22
\* part_004 and the join-room server of part_000
SpecSio == (InitP4 \/ InitP0) /\ [][NextP4 \/ NextP0]_vars

\* C22: in part_004 and in the join-room server of part_000 every
\* 'peer-joined' / 'user-joined' message of a join step is preceded, in the
\* order of emission, by the joiner's private acknowledgement ('room-state' /
\* 'room-data').
C22_AckBeforeNotification ==
    [][(impl \in {"part004", "part000"} /\ event'.type = "join") =>
          \A i \in DOMAIN outbox' :
              outbox'[i].msg.type \in {"peer-joined", "user-joined"} =>
                 \E j \in 1..(i - 1) :
                     /\ outbox'[j].to = event'.conn
                     /\ outbox'[j].msg.type \in {"room-state", "room-data"}
      ]_vars


\* ------------------------------------------------------------------ C23
\* the events of socket s that were allowed at a time in [t, t + windowMs)
AllowedWithin(s, t) ==
    {i \in DOMAIN allowedP1[s] :
        allowedP1[s][i] >= t /\ allowedP1[s][i] < t + windowMs}

\* C23: with the rate limiter of part_001, no interval of length windowMs
\* holds more than maxEventsPerMinute allowed events of one connection (it is
\* enough to look at the intervals that begin at an allowed event).
C23_SlidingWindow ==
    \A s \in DOMAIN allowedP1 :
        \A i \in DOMAIN allowedP1[s] :
            Cardinality(AllowedWithin(s, allowedP1[s][i])) <= maxEventsPerMinute


\* ------------------------------------------------------------------ C24
\* socket s has used up its window: the count stands at the maximum and the
\* window has not run out
AtLimit(s) ==
    /\ s \in DOMAIN rateP1
    /\ rateP1[s].count >= maxEventsPerMinute
    /\ ~(now - rateP1[s].firstEvent > windowMs)

\* the inbound events of a socket of part_001
InboundKinds ==
    {"create", "join", "send-message", "audio-state-change"}
        \cup WebrtcKinds \cup RoomEventKinds

\* C24: in part_001 an inbound event of a socket that has used up its window
\* delivers no message to any other connection.
C24_LimitedSocketReachesNobody ==
    [][(impl = "part001" /\ event'.type \in InboundKinds /\ AtLimit(event'.conn))
          => \A i \in DOMAIN outbox' : outbox'[i].to = event'.conn
      ]_vars


\* ------------------------------------------------------------------ C25
\* C25: in src/server.js and part_002 a mute-mic control changes no room and
\* no connection state and sends at most one message: a 'control' directive
\* with action mute-mic, sent only when the sender is the host of the room,
\* and then to the connection of the member that targetId names; when the
\* target is not a member of that room nothing is sent.
C25_MuteMicIsPrivate ==
    [][/\ impl = "server" =>
            \A c \in ControlConns, roomCode \in Rooms, targetId \in TargetIds :
                handleControl(c, roomCode, "mute-mic", FALSE, targetId) =>
                    /\ UNCHANGED <<rooms, clientId, currentRoom, readyState>>
                    /\ Len(outbox') <= 1
                    /\ \A i \in DOMAIN outbox' :
                          /\ outbox'[i].msg = [type |-> "control",
                                               action |-> "mute-mic"]
                          /\ roomCode \in HostedBy(c)
                          /\ \E k \in DOMAIN rooms[roomCode].clients :
                                /\ rooms[roomCode].clients[k].id = targetId
                                /\ rooms[roomCode].clients[k].ws = outbox'[i].to
                    /\ (roomCode \notin DOMAIN rooms
                           \/ targetId \notin ClientIds(rooms[roomCode]))
                          => outbox' = <<>>
       /\ impl = "part002" =>
            \A c \in ControlConns, targetId \in TargetIds2 :
                Control2(c, "mute-mic", FALSE, targetId) =>
                    /\ UNCHANGED <<roomsP2, wsRoom, readyState>>
                    /\ Len(outbox') <= 1
                    /\ \A i \in DOMAIN outbox' :
                          /\ outbox'[i].msg = [type |-> "control",
                                               action |-> "mute-mic"]
                          /\ findRoomOf(c) \in HostedBy2(c)
                          /\ outbox'[i].to = targetId
                          /\ targetId \in PeerIds(roomsP2[findRoomOf(c)])
                    /\ (findRoomOf(c) = NullRoom
                           \/ targetId \notin PeerIds(roomsP2[findRoomOf(c)]))
                          => outbox' = <<>>
      ]_vars

\* the host of a room with several members has muted one of them: the
\* directive is the only message of the step (src/server.js)
C25_Witness ==
    /\ impl = "server"
    /\ event.type = "control"
    /\ Len(outbox) = 1
    /\ outbox[1].msg = [type |-> "control", action |-> "mute-mic"]
    /\ outbox[1].to # event.conn
    /\ \E r \in HostedBy(event.conn) : Len(rooms[r].clients) > 2

\* the same in part_002
C25_WitnessP2 ==
    /\ impl = "part002"
    /\ event.type = "control"
    /\ Len(outbox) = 1
    /\ outbox[1].msg = [type |-> "control", action |-> "mute-mic"]
    /\ outbox[1].to # event.conn
    /\ \E r \in HostedBy2(event.conn) : Len(roomsP2[r].peers) > 2


\* ------------------------------------------------------------------ C26
\* C26: in part_001 and part_003 a run of cleanupInactiveRooms removes exactly
\* the rooms that have no user and whose lastActivity lies more than
\* inactiveTimeout back, and leaves every other room as it is; no step of any
\* kind removes a room that has a user.
C26_CleanupOnlyEmptyInactive ==
    [][/\ event'.type = "cleanup" =>
            /\ DOMAIN roomsP1' =
                  {r \in DOMAIN roomsP1 :
                      ~(/\ Len(roomsP1[r].users) = 0
                        /\ now - roomsP1[r].lastActivity > inactiveTimeout)}
            /\ \A r \in DOMAIN roomsP1' : roomsP1'[r] = roomsP1[r]
       /\ \A r \in DOMAIN roomsP1 :
            Len(roomsP1[r].users) > 0 => r \in DOMAIN roomsP1'
      ]_vars

\* a sweep has run past the timeout of a room that has users: the room is
\* still there
C26_Witness ==
    /\ impl = "part001"
    /\ event.type = "cleanup"
    /\ \E r \in DOMAIN roomsP1 :
          /\ Len(roomsP1[r].users) > 0
          /\ now - roomsP1[r].lastActivity > inactiveTimeout

\* an empty room has passed its timeout, next to a room that has users: the
\* sweep that follows removes the one and keeps the other
C26_WitnessEmpty ==
    /\ impl = "part001"
    /\ \E r \in DOMAIN roomsP1 : Inactive(roomsP1[r], now)
    /\ \E r \in DOMAIN roomsP1 : Len(roomsP1[r].users) > 0


\* ------------------------------------------------------------------ C27
\* the sockets to which the sends of the step failed
FailedSends == IF "failed" \in DOMAIN event' THEN event'.failed ELSE {}

\* C27: in src/server.js a failed send does not cut a join short: whenever a
\* join step has put a new entry into a room, every other open member whose
\* own send did not fail has received the 'peer-joined' about that entry.
C27_SendFailureContained ==
    [][(impl = "server" /\ event'.type = "join") =>
          \A r \in DOMAIN rooms' :
              LET before == IF r \in DOMAIN rooms THEN ClientIds(rooms[r]) ELSE {}
              IN  \A id \in ClientIds(rooms'[r]) \ before :
                      \A k \in DOMAIN rooms'[r].clients :
                          LET cl == rooms'[r].clients[k]
                          IN  (/\ cl.id # id
                               /\ readyState'[cl.ws] = "OPEN"
                               /\ cl.ws \notin FailedSends)
                                 => \E i \in DOMAIN outbox' :
                                       /\ outbox'[i].to = cl.ws
                                       /\ outbox'[i].msg.type = "peer-joined"
                                       /\ outbox'[i].msg.id = id
      ]_vars


\* ------------------------------------------------------------------ C28
\* C28: in src/server.js a heartbeat tick terminates exactly the open
\* connections that have not answered the ping of the tick before, nothing
\* else terminates a connection, and a terminated connection ends up with no
\* entry in any room.
C28_HeartbeatRemovesSilentPeer ==
    /\ [][/\ event'.type = "heartbeat" =>
                \A c \in DOMAIN readyState :
                    readyState[c] = "OPEN" =>
                        (readyState'[c] = "CLOSING" <=> ~isAlive[c])
          /\ \A c \in DOMAIN readyState :
                (readyState'[c] = "CLOSING" /\ readyState[c] # "CLOSING")
                    => event'.type = "heartbeat"
         ]_vars
    /\ \A c \in Conns :
          (impl = "server" /\ readyState[c] = "CLOSING") ~> ~IsMember(c)


\* the participants of the room a bot result belongs to, at the time it
\* resolves; a room that is gone has none
OriginMembers(roomId) ==
    IF roomId \in DOMAIN roomsP0 THEN ParticipantIds(roomsP0[roomId]) ELSE {}

C29_OneResult ==
    (event'.type = "bot-result") =>
        /\ \A i \in DOMAIN outbox' :
              /\ outbox'[i].msg.log \in {"reply", "error"}
              /\ outbox'[i].to \in OriginMembers(event'.room)
        /\ \A i, j \in DOMAIN outbox' :
              outbox'[i].to = outbox'[j].to => i = j
        /\ Cardinality(FreeSlots(pendingP0')) = Cardinality(FreeSlots(pendingP0)) + 1

C29_NoWait ==
    (event'.type = "send-message" /\ event'.registered = "fetch") =>
        /\ \A i \in DOMAIN outbox' : outbox'[i].msg.log \in {"chat", "preparing"}
        /\ Cardinality(FreeSlots(pendingP0')) + 1 = Cardinality(FreeSlots(pendingP0))

\* C29: part_000, send-message: each '/webber <question>' with a non-empty
\* question eventually yields exactly one bot result, the reply or the single
\* error message and never both; the handler returns without waiting for it,
\* and the result goes only to the members of the originating room at the
\* time it resolves.
C29_WebberResultToOriginatingRoom ==
    /\ [][C29_OneResult /\ C29_NoWait]_vars
    /\ \A i \in 1..MaxPending :
          (pendingP0[i].kind = "fetch") ~> (pendingP0[i].kind = "none")

\* the part of C29 that holds: one result per request, after the handler
\* has returned, and every request settles
C29_OneResultEventually ==
    /\ [][(event'.type = "bot-result" =>
              /\ \A i \in DOMAIN outbox' :
                    outbox'[i].msg.log \in {"reply", "error"}
              /\ \A i, j \in DOMAIN outbox' :
                    outbox'[i].to = outbox'[j].to => i = j)
          /\ C29_NoWait]_vars
    /\ \A i \in 1..MaxPending :
          (pendingP0[i].kind = "fetch") ~> (pendingP0[i].kind = "none")


\* the rooms whose admin the last handler has replaced
AdminChanged ==
    {r \in DOMAIN roomsP0 \cap DOMAIN roomsP0' :
        roomsP0'[r].admin # roomsP0[r].admin}

\* the socket has been sent a message of one of the types about room r
Told(s, r, types) ==
    \E i \in DOMAIN outbox' :
        /\ outbox'[i].to = s
        /\ outbox'[i].msg.type \in types
        /\ outbox'[i].msg.room = r

C30_Leave ==
    (event'.type \in {"leave", "close"}) =>
        \A r \in AdminChanged :
            /\ roomsP0[r].admin = event'.conn
            /\ Told(roomsP0'[r].admin, r, {"admin-assigned"})
            /\ \A p \in ParticipantIds(roomsP0'[r]) :
                  Told(p, r, {"admin-assigned", "admin-changed"})

C30_Join ==
    (impl = "part000" /\ event'.type = "join") =>
        \A i \in DOMAIN outbox' :
            outbox'[i].msg.type = "room-data" =>
                \A k \in DOMAIN outbox'[i].msg.participants :
                    outbox'[i].msg.participants[k].isAdmin
                        <=> (outbox'[i].msg.participants[k].id
                                = outbox'[i].msg.admin)

\* C30: part_000, join-room variant: when the admin leaves a room that still
\* has participants, the new admin is told that it is admin now, every
\* remaining participant is told of the admin change, and the participant
\* records a later joiner receives mark exactly the current admin as isAdmin.
C30_AdminChangeAnnounced == [][C30_Leave /\ C30_Join]_vars

\* the part of C30 that holds: the new admin is told
C30_NewAdminTold ==
    [][(event'.type \in {"leave", "close"}) =>
          \A r \in AdminChanged :
              /\ roomsP0[r].admin = event'.conn
              /\ Told(roomsP0'[r].admin, r, {"admin-assigned"})]_vars


\* the peers the last handler has taken out of room r, which is still there
Removed4(r) == PeerKeys(roomsP4[r]) \ PeerKeys(roomsP4'[r])

\* every peer that is left in room r has been sent peer-left for peerId
PeerLeftSent(r, peerId) ==
    \A i \in DOMAIN roomsP4'[r].peers :
        \E k \in DOMAIN outbox' :
            /\ outbox'[k].to = roomsP4'[r].peers[i].socket
            /\ outbox'[k].msg.type = "peer-left"
            /\ outbox'[k].msg.peerId = peerId

C31_Step ==
    \A r \in DOMAIN roomsP4 \cap DOMAIN roomsP4' :
        \A peerId \in Removed4(r) : PeerLeftSent(r, peerId)

\* C31: part_004: whenever a peer is removed from a room that still has
\* other members, on disconnect or because its connection sends join-room
\* for another room, every remaining member of that room is sent peer-left
\* naming the removed peer.
C31_PeerLeftOnRemoval == [][C31_Step]_vars

\* the part of C31 that holds: the removal by disconnect
C31_PeerLeftOnDisconnect == [][event'.type = "close" => C31_Step]_vars


\* the roomHistory messages of the last handler
Histories == {i \in DOMAIN outbox' : outbox'[i].msg.type = "roomHistory"}

C32_CurrentHistory ==
    (impl = "part000chat" /\ event'.type = "join" /\ outbox' # <<>>) =>
        /\ Cardinality(Histories) = 1
        /\ \A i \in Histories :
              /\ outbox'[i].to = event'.conn
              /\ outbox'[i].msg.messages = getRoomHistory(outbox'[i].msg.room)

C32_EmptyAfterAllLeft ==
    (impl = "part000chat" /\ event'.type = "join") =>
        \A i \in Histories :
            outbox'[i].msg.room \in vacated => outbox'[i].msg.messages = <<>>

\* C32: part_000, joinRoom / chatMessage: a joining user is sent exactly the
\* current recent-message history of the room, and after every user of a
\* room has left, the next user to join that room name receives an empty
\* history.
C32_HistoryOnJoin == [][C32_CurrentHistory /\ C32_EmptyAfterAllLeft]_vars

\* the part of C32 that holds: the joiner is sent the current history
C32_JoinerGetsCurrentHistory == [][C32_CurrentHistory]_vars


UserIds1(room) == {room.users[i].id : i \in DOMAIN room.users}

\* the last handler has changed the users of room r, or counted a message
Active1(r) ==
    \/ UserIds1(roomsP1'[r]) # UserIds1(roomsP1[r])
    \/ roomsP1'[r].totalMessages # roomsP1[r].totalMessages

C33_Step ==
    (event'.type \in {"join", "send-message", "close"}) =>
        \A r \in DOMAIN roomsP1 \cap DOMAIN roomsP1' :
            Active1(r) => roomsP1'[r].lastActivity = now'

\* C33: part_001 / part_003: lastActivity of a room is updated on every
\* successful join, every accepted chat message and every leave (disconnect
\* of a member), also a leave that does not empty the room.
C33_LastActivityUpdated == [][C33_Step]_vars

\* the part of C33 that holds: joins, messages, and the leave that empties
\* the room
C33_LastActivityOnJoinMessageLastLeave ==
    [][(event'.type \in {"join", "send-message", "close"}) =>
          \A r \in DOMAIN roomsP1 \cap DOMAIN roomsP1' :
              (Active1(r) /\ (event'.type = "close" => roomsP1'[r].users = <<>>))
                  => roomsP1'[r].lastActivity = now']_vars


\* the last handler has registered a new empty room under a code of
\* codeLength characters and sent room-created with it to socket s
RoomCreated(s) ==
    \E roomCode \in DOMAIN roomsP1' \ DOMAIN roomsP1 :
        /\ Len(roomCode) = codeLength
        /\ roomsP1'[roomCode].users = <<>>
        /\ \E i \in DOMAIN outbox' :
              outbox'[i] = Send(s, [type |-> "room-created", roomCode |-> roomCode])

C34_Step ==
    \A s \in Conns, userName \in Names :
        ( /\ impl = "part003"
          /\ validateCreate1(userName) = <<>>
          /\ checkSocketRateLimit(rateP1, s, now).ok
          /\ CreateRoom1(s, userName) ) => RoomCreated(s)

\* C34: part_003: a create-room with a valid display name (non-empty after
\* the markup is stripped, at most 20 characters) from a connection within
\* its rate limit registers a new empty room under a fresh 6-character code
\* and sends room-created with that code to the requester.
C34_CreateRoomRegisters == [][C34_Step]_vars


\* the number of entries of socket s in the users list of a room
Entries1(room, s) ==
    Cardinality({i \in DOMAIN room.users : room.users[i].id = s})

\* C35: part_001 / part_003: at every moment a socket is in the users list
\* of at most one room and at most once in it, and after the socket has
\* disconnected it is in no room, also when the socket sends join-room for
\* several existing rooms.
C35_OneRoomPerSocket ==
    \A s \in DOMAIN connected :
        /\ Cardinality({r \in DOMAIN roomsP1 : Entries1(roomsP1[r], s) > 0}) <= 1
        /\ \A r \in DOMAIN roomsP1 : Entries1(roomsP1[r], s) <= 1
        /\ (impl \in P13 /\ ~connected[s]) =>
              \A r \in DOMAIN roomsP1 : Entries1(roomsP1[r], s) = 0

\* the part of C35 that holds: a socket is at most once in a users list
C35_AtMostOncePerRoom ==
    \A s \in DOMAIN connected :
        \A r \in DOMAIN roomsP1 : Entries1(roomsP1[r], s) <= 1


\* room r has an entry for peerId that is bound to socket s
Bound4(s, r, peerId) ==
    /\ r \in DOMAIN roomsP4
    /\ \E i \in DOMAIN roomsP4[r].peers :
          /\ roomsP4[r].peers[i].peerId = peerId
          /\ roomsP4[r].peers[i].socket = s

\* the entries of all rooms
Members4 ==
    UNION {{<<r, i>> : i \in DOMAIN roomsP4[r].peers} : r \in DOMAIN roomsP4}

C36_WitnessDisconnect ==
    /\ impl = "part004"
    /\ event.type = "close"
    /\ event.conn \notin DOMAIN peers
    /\ DOMAIN peers # {}


\* every connection that has sent a join is closed
AllJoinersClosed ==
    \A c \in DOMAIN readyState : clientId[c] # Null => readyState[c] = "CLOSED"

\* C37: server.js: room state is always reclaimed: once every connection
\* that ever sent a join has closed, the rooms registry is empty, for every
\* sequence of join (accepted or rejected, repeated on one connection or
\* not), control and close events.
C37_RoomsReclaimed ==
    (impl = "server" /\ AllJoinersClosed) => rooms = <<>>


\* connection c has an entry in room r
MemberOf(c, r) == r \in DOMAIN rooms /\ c \in MemberConns(r)

C38_Step ==
    (impl = "server" /\ event'.type \in {"chat", "status", "reaction"}) =>
        \A i \in DOMAIN outbox' :
            \E r \in DOMAIN rooms :
                MemberOf(outbox'[i].to, r) /\ MemberOf(event'.conn, r)

\* C38: server.js: room-wide events stay in the sender's room: a chat,
\* status or reaction event is delivered to the members of a room only if
\* the sending connection is a member of that room; a connection in no room
\* or in another room cannot cause a delivery to that room's members.
C38_RoomEventsIsolated == [][C38_Step]_vars

\* the part of C38 that holds: chat
C38_ChatIsolated ==
    [][(impl = "server" /\ event'.type = "chat") =>
          \A i \in DOMAIN outbox' :
              \E r \in DOMAIN rooms :
                  MemberOf(outbox'[i].to, r) /\ MemberOf(event'.conn, r)]_vars

\* a chat of a member has been delivered to the other members
C38_WitnessChat ==
    /\ impl = "server"
    /\ event.type = "chat"
    /\ Len(outbox) >= 2

\* server.js with the clients' views followed
SpecServerView == InitServerView /\ [][NextServer]_vars

\* the open connections that are members of a room
OpenMembers ==
    {c \in DOMAIN view : readyState[c] = "OPEN" /\ EntriesOf(c) # {}}

\* the view of c is the server's state of a room c has an entry in
ViewMatches(c) ==
    \E e \in EntriesOf(c) :
        view[c] = ServerView(e[1], rooms[e[1]].clients[e[2]].id)

\* C39: server.js: each open member's client-side view, reconstructed from
\* the messages it received (roster from the 'joined' acknowledgement plus
\* peer-joined minus peer-left, host from hostId and host-changed, lock from
\* locked and room-lock), equals the server's state of its room (the clients
\* other than itself, hostId, locked) after every completed handler.
C39_ClientViewRefinesServer ==
    impl = "server" => \A c \in OpenMembers : ViewMatches(c)

\* the part of C39 that holds: the members that joined once
C39_SingleJoinViewRefinesServer ==
    impl = "server" =>
        \A c \in OpenMembers : Cardinality(EntriesOf(c)) = 1 => ViewMatches(c)

\* a member that joined once has seen a peer join, a peer leave, the host
\* change and the room locked
C39_Witness ==
    /\ impl = "server"
    /\ \E c \in OpenMembers :
          /\ Cardinality(EntriesOf(c)) = 1
          /\ ViewMatches(c)
          /\ view[c].locked
          /\ view[c].hostId # 1
          /\ view[c].roster # {}

=============================================================================
